---- MODULE Spec2Model ----
(***************************************************************************)
(* Model of the B2 storage backend of squirrel-up (pkg/common/b2.go) and   *)
(* of its multipart upload engine, B2Backend.StoreFile.                    *)
(*                                                                         *)
(* One StoreFile call is modelled with its goroutines: the caller (pc),    *)
(* one uploadPart worker per part (wpc[p]) and the goroutine that waits    *)
(* for the WaitGroup and closes the result channel (cleanup).  The S3      *)
(* service is the environment: every remote call returns one of the        *)
(* outcomes its Go signature allows.                                       *)
(***************************************************************************)
EXTENDS Integers, Sequences, FiniteSets, TLC

(***************************************************************************)
(* Program constants (b2.go:45-50, base.go:52-57).                         *)
(***************************************************************************)
put_get_object_max_bytes == 256 * 1024 * 1024

multipart_upload_part_size == 100 * 1024 * 1024

multipart_upload_wait_seconds == 5

\* The mutant of multipart_upload_max_attempts that allows one attempt more.
multipart_upload_max_attempts_OneMore == 5 + 1

multipart_upload_max_attempts == 5

ErrFileNotFound == "file not found"

ErrAccessDenied == "access denied"

ErrInvalidConfig == "invalid backend configuration"

ErrOperationTimeout == "operation timeout"

(***************************************************************************)
(* Bounds of the model.                                                    *)
(***************************************************************************)
\* Largest number of parts of a StoreFile call under Spec.
MaxParts == 2

\* Number of parts of the StoreFile calls under SpecPool.
PoolParts == 5

(***************************************************************************)
(* Go error values.  kind "nil" is the nil error, "aws" an awserr.Error    *)
(* with a code and a message, "plain" any other error (errors.New,         *)
(* fmt.Errorf) with its text in msg.                                       *)
(***************************************************************************)
NilErr == [kind |-> "nil", code |-> "", msg |-> ""]

AwsErr(code, msg) == [kind |-> "aws", code |-> code, msg |-> msg]

PlainErr(msg) == [kind |-> "plain", code |-> "", msg |-> msg]

\* err.Error(): "<code>: <message>" for an awserr.Error, the text otherwise.
ErrorText(err) ==
    IF err.kind = "aws" THEN err.code \o ": " \o err.msg ELSE err.msg

\* The mutant of handleError without the cases that fall through to
\* NoSuchKey.
handleError_NotFoundOnly(err) ==
    IF err.kind = "aws" /\ err.code = "NoSuchKey"
    THEN PlainErr(ErrFileNotFound)
    ELSE IF err.kind = "aws" /\ err.code = "AccessDenied"
    THEN PlainErr(ErrAccessDenied)
    ELSE IF err.kind = "aws" /\ err.code \in {"MissingRegion", "EmptyStaticCreds"}
    THEN PlainErr(ErrInvalidConfig)
    ELSE IF err.kind = "aws" /\ err.code = "RequestTimeout"
    THEN PlainErr(ErrOperationTimeout)
    ELSE PlainErr("unknown B2 error (" \o ErrorText(err) \o ").")

\* handleError (b2.go:124-144).
handleError(err) ==
    IF err.kind = "aws" /\ err.code \in {"NotFound", "NoSuchBucket", "NoSuchKey"}
    THEN PlainErr(ErrFileNotFound)
    ELSE IF err.kind = "aws" /\ err.code = "AccessDenied"
    THEN PlainErr(ErrAccessDenied)
    ELSE IF err.kind = "aws" /\ err.code \in {"MissingRegion", "EmptyStaticCreds"}
    THEN PlainErr(ErrInvalidConfig)
    ELSE IF err.kind = "aws" /\ err.code = "RequestTimeout"
    THEN PlainErr(ErrOperationTimeout)
    ELSE PlainErr("unknown B2 error (" \o ErrorText(err) \o ").")

\* The error StoreFile makes when the session was created without an upload id
\* (b2.go:295).
NoUploadIdErr ==
    PlainErr("multipart upload failed: no upload id found in server response")

\* The value StoreFile has returned; kind "pending" while it is running.
Pending == [kind |-> "pending", code |-> "", msg |-> ""]

\* The mutant of ReturnValue that returns nil whatever the call returned.
ReturnValue_Dropped(e) == NilErr

\* StoreFile's last statement (b2.go:372-375).
ReturnValue(e) == IF e # NilErr THEN handleError(e) ELSE NilErr

(***************************************************************************)
(* Outcomes of the remote calls.                                           *)
(***************************************************************************)
\* Errors a single remote call of the caller's goroutine may return.
CallErrs ==
    { AwsErr("AccessDenied", ""), AwsErr("InternalError", "try again"),
      PlainErr("connection reset") }

\* *s3.UploadPartOutput: <<>> is the nil pointer, otherwise the output whose
\* ETag names the part and the attempt that produced it.
NilOutput == <<>>

UploadOutput(p, k) == <<p, k>>

\* The failures of attempt k of part p: a service error beside an output, or
\* an error beside a nil output.
UploadFailures(p, k) ==
    { [err |-> AwsErr("RequestTimeout", "idle"), out |-> UploadOutput(p, k)],
      [err |-> AwsErr("AccessDenied", ""), out |-> UploadOutput(p, k)],
      [err |-> PlainErr("unexpected key"), out |-> NilOutput] }

(***************************************************************************)
(* byPartNum and sort.Sort (b2.go:146-157, 347).                           *)
(***************************************************************************)
\* byPartNum.Less on two completed parts.
Less(a, b) == a.PartNumber < b.PartNumber

RECURSIVE InsertPart(_, _)
InsertPart(part, s) ==
    IF s = <<>> THEN <<part>>
    ELSE IF Less(part, Head(s)) THEN <<part>> \o s
    ELSE <<Head(s)>> \o InsertPart(part, Tail(s))

\* The mutant of SortParts that leaves the parts in arrival order.
SortParts_Unsorted(s) == s

RECURSIVE SortParts(_)
\* sort.Sort(byPartNum(completedParts)): the parts ordered by Less.
SortParts(s) ==
    IF s = <<>> THEN <<>> ELSE InsertPart(Head(s), SortParts(Tail(s)))

(***************************************************************************)
(* State.                                                                  *)
(***************************************************************************)
VARIABLES
    contentLength,  \* StoreFile's argument
    pc,             \* the caller's place in StoreFile
    err,            \* StoreFile's variable err
    ret,            \* the value StoreFile returned, Pending before
    position,       \* the split loop's variables (b2.go:302)
    length,
    partNum,
    wg,             \* the WaitGroup's counter
    closed,         \* whether the result channel ch is closed
    cleanup,        \* the goroutine of b2.go:321-324
    completedParts, \* the collector's list
    wpc,            \* per worker: its place in uploadPart
    wargs,          \* per worker: the byte range and length it was given
    attempt,        \* per worker: uploadPart's variable attempt
    werr,           \* per worker: uploadPart's variable err
    wout,           \* per worker: uploadPart's variable uploadOutput
    session,        \* the remote multipart session
    calls,          \* remote calls issued so far, by operation
    uploadCalls,    \* per part: UploadPart calls issued
    failedAttempts, \* per part: UploadPart calls that returned an error
    waitCalls,      \* per part: waitfunc calls made
    completeInput,  \* the Parts list given to CompleteMultipartUpload
    arrivals,       \* part numbers in the order their results were received
    crashed,        \* the process died of an unrecovered panic
    replies,        \* what each single remote call of StoreFile returned
    op,             \* the operation of the backend that was called
    uri,            \* its uri argument: host and path
    arg,            \* handleError's argument
    mpc,            \* the place in GetFileInfo, ListFiles or RemoveFile
    resp,           \* RemoveFile's variable resp
    trace,          \* the remote calls those operations issued, in order
    mret,           \* what the operation returned
    stored,         \* the bucket's objects under the uri's prefix, by key
    psr,            \* a progressSectionReader: its fields sr, bar and read
    ref,            \* a section reader of the same range, given the same calls
    rio,            \* what the calls on psr and on ref returned, and totals
    run,            \* one backup run: main's function run and its variables
    mpr,            \* a MultiProgressbarReporter: its fields
    mio,            \* what the calls on mpr returned
    barLock,        \* mpr.barLock: the caller that holds it, 0 if none
    wrLock,         \* mpr.wrLock: the caller that holds it, 0 if none
    callers         \* per concurrent caller of mpr: its place in its call

vars ==
    << contentLength, pc, err, ret, position, length, partNum, wg, closed,
       cleanup, completedParts, wpc, wargs, attempt, werr, wout, session,
       calls, uploadCalls, failedAttempts, waitCalls, completeInput, arrivals,
       crashed, replies, op, uri, arg, mpc, resp, trace, mret, stored,
       psr, ref, rio, run, mpr, mio, barLock, wrLock, callers >>

\* The state of the operations other than StoreFile.
metaVars == << op, uri, arg, mpc, resp, trace, mret, stored >>

callerVars == << pc, err, ret, position, length, partNum, completedParts >>

workerVars == << wpc, wargs, attempt, werr, wout >>

NoCalls == [put |-> 0, create |-> 0, complete |-> 0, abort |-> 0]

\* No single remote call has returned yet: per call the error it returned
\* (Pending before), the createOutput of b2.go:287, and per part the error
\* its latest UploadPart call returned.
NoReplies ==
    [put |-> Pending, create |-> Pending, createOutput |-> "unset",
     complete |-> Pending, abort |-> Pending, upload |-> <<>>]

\* No result yet.
NoResult == [isnil |-> TRUE, value |-> <<>>, err |-> Pending]

\* A uri's path is a string, modelled as the sequence of its characters.
StoreUri == [host |-> "bucket", path |-> <<"/", "k">>]

\* None of GetFileInfo, ListFiles, RemoveFile and handleError is running.
MetaIdle ==
    /\ op = "StoreFile"
    /\ uri = StoreUri
    /\ arg = NilErr
    /\ mpc = "idle"
    /\ resp = <<>>
    /\ trace = <<>>
    /\ mret = NoResult
    /\ stored = <<>>

\* The content lengths StoreFile is called with (an int64): up to the
\* threshold, and for each number of parts n the shortest and the longest
\* content of n parts.
Lengths(maxParts) ==
    { -1, 0, 1, put_get_object_max_bytes }
    \cup { (n - 1) * put_get_object_max_bytes + 1 : n \in 2..maxParts }
    \cup { n * put_get_object_max_bytes : n \in 2..maxParts }

\* The state of the progressSectionReader that is driven on its own.
readerVars == << psr, ref, rio >>

\* The state of a backup run.
runVars == << run >>

\* The state of the MultiProgressbarReporter that is driven on its own.
reporterVars == << mpr, mio >>

\* The locks of the reporter and the goroutines that call it concurrently.
lockVars == << barLock, wrLock, callers >>

\* The state of everything but StoreFile and the operations of metaVars.
restVars == << readerVars, runVars, reporterVars, lockVars >>

\* An io.SectionReader over a range of size bytes, at offset off of the range.
SectionReader(size, off) == [size |-> size, off |-> off]

\* No call was made on the reader yet: the number of calls and of Read calls,
\* the last results through psr and on ref, the bytes all reads returned,
\* whether a Read brought that total to the size of the range, whether the
\* bar was described as "uploading", the data of the reads that returned
\* the whole range, and the offset of the reader at the start of each
\* UploadPart attempt it was the body of.
NoCallsYet ==
    [calls |-> 0, reads |-> 0, last |-> <<>>, refLast |-> <<>>, total |-> 0,
     reached |-> FALSE, switched |-> FALSE, passes |-> <<>>, starts |-> <<>>]

\* No progressSectionReader is driven on its own.
ReaderIdle ==
    /\ psr = [sr |-> SectionReader(0, 0), bar |-> <<>>, read |-> 0]
    /\ ref = SectionReader(0, 0)
    /\ rio = NoCallsYet

\* No backup run was started: run's place, cfg.Backup.Hours, the number of
\* recipients initEncryption returns, run's variable err, the ages in hours
\* of the files cleanupBackupPrefix was given, its loop index, the stage that
\* failed, the calls run made on the backend with the error each returned,
\* the temporary files of the run that are on disk, and what run returned.
NotRunning ==
    [pc |-> "idle", hours |-> 0, recipients |-> 0, err |-> NilErr,
     filelist |-> <<>>, next |-> 0, failed |-> "none", calls |-> <<>>,
     files |-> {}, ret |-> Pending]

RunIdle == run = NotRunning

\* NewMultiProgressbarReporter (progress.go:69-79).  bars maps the index of
\* a task to its bar, writer the index of a task to the line its bar writes
\* to, 0 for io.Discard.
NewMultiProgressbarReporter ==
    [active |-> <<>>, bars |-> <<>>, writer |-> <<>>, curLine |-> 1,
     totLines |-> 1]

\* No call was made on the reporter yet: the number of calls, the last call
\* with its index and increment, the error it returned, the reporter before
\* it, and whether it panicked.
NoReporterCalls ==
    [calls |-> 0, last |-> "none", index |-> 0, increment |-> 0,
     err |-> Pending, before |-> NewMultiProgressbarReporter,
     panicked |-> FALSE]

\* No MultiProgressbarReporter is driven on its own.
ReporterIdle == mpr = NewMultiProgressbarReporter /\ mio = NoReporterCalls

\* No goroutine is calling the reporter concurrently with another.
LocksIdle == barLock = 0 /\ wrLock = 0 /\ callers = <<>>

RestIdle == ReaderIdle /\ RunIdle /\ ReporterIdle /\ LocksIdle

\* StoreFile's variables before its first statement, for a content of len
\* bytes.
Fresh(len) ==
    /\ contentLength = len
    /\ err = NilErr
    /\ ret = Pending
    /\ position = 0
    /\ length = 0
    /\ partNum = 0
    /\ wg = 0
    /\ closed = FALSE
    /\ cleanup = "none"
    /\ completedParts = <<>>
    /\ wpc = <<>>
    /\ wargs = <<>>
    /\ attempt = <<>>
    /\ werr = <<>>
    /\ wout = <<>>
    /\ session = "none"
    /\ calls = NoCalls
    /\ uploadCalls = <<>>
    /\ failedAttempts = <<>>
    /\ waitCalls = <<>>
    /\ completeInput = <<>>
    /\ arrivals = <<>>
    /\ crashed = FALSE
    /\ replies = NoReplies

\* StoreFile was called with a content of len bytes.
Entered(len) == pc = "call" /\ Fresh(len) /\ MetaIdle /\ RestIdle

Init == \E len \in Lengths(MaxParts) : Entered(len)

Workers == 1..Len(wpc)

(***************************************************************************)
(* StoreFile, single-shot path (b2.go:360-375).                            *)
(***************************************************************************)
\* The mutant of UseMultipart that sends the threshold itself to multipart.
UseMultipart_AtThreshold(len) == len >= put_get_object_max_bytes

\* The test of b2.go:285.
UseMultipart(len) == len > put_get_object_max_bytes

PutObject ==
    /\ ~crashed
    /\ pc = "call"
    /\ ~UseMultipart(contentLength)
    /\ \E e \in {NilErr} \cup CallErrs :
         /\ err' = e
         /\ replies' = [replies EXCEPT !.put = e]
         /\ ret' = ReturnValue(e)
    /\ calls' = [calls EXCEPT !.put = @ + 1]
    /\ pc' = "done"
    /\ UNCHANGED << contentLength, position, length, partNum, wg, closed,
                    cleanup, completedParts, workerVars, session, uploadCalls,
                    failedAttempts, waitCalls, completeInput, arrivals,
                    crashed, metaVars,
                    restVars >>

(***************************************************************************)
(* StoreFile, multipart path: session creation (b2.go:285-296).            *)
(***************************************************************************)
\* The mutant of CreateMultipartUploadFails without the return of b2.go:293.
CreateMultipartUploadFails_NoReturn ==
    /\ ~crashed
    /\ pc = "call"
    /\ UseMultipart(contentLength)
    /\ \E e \in CallErrs, out \in {"nil", "no upload id"} :
         /\ err' = e
         /\ replies' = [replies EXCEPT !.create = e, !.createOutput = out]
    /\ calls' = [calls EXCEPT !.create = @ + 1]
    /\ length' = put_get_object_max_bytes
    /\ position' = 0
    /\ pc' = "split"
    /\ UNCHANGED << contentLength, ret, partNum, wg, closed,
                    cleanup, completedParts, workerVars, session, uploadCalls,
                    failedAttempts, waitCalls, completeInput, arrivals,
                    crashed, metaVars,
                    restVars >>

\* CreateMultipartUpload returns an error.
CreateMultipartUploadFails ==
    /\ ~crashed
    /\ pc = "call"
    /\ UseMultipart(contentLength)
    /\ \E e \in CallErrs, out \in {"nil", "no upload id"} :
         /\ err' = e
         /\ replies' = [replies EXCEPT !.create = e, !.createOutput = out]
         /\ ret' = handleError(e)
    /\ calls' = [calls EXCEPT !.create = @ + 1]
    /\ pc' = "done"
    /\ UNCHANGED << contentLength, position, length, partNum, wg, closed,
                    cleanup, completedParts, workerVars, session, uploadCalls,
                    failedAttempts, waitCalls, completeInput, arrivals,
                    crashed, metaVars,
                    restVars >>

\* The mutant of CreateMultipartUploadNoId without the test of b2.go:294.
CreateMultipartUploadNoId_Unchecked ==
    /\ ~crashed
    /\ pc = "call"
    /\ UseMultipart(contentLength)
    /\ \E out \in {"nil", "no upload id"} :
         replies' = [replies EXCEPT !.create = NilErr, !.createOutput = out]
    /\ calls' = [calls EXCEPT !.create = @ + 1]
    /\ length' = put_get_object_max_bytes
    /\ position' = 0
    /\ pc' = "split"
    /\ UNCHANGED << contentLength, err, ret, partNum, wg, closed,
                    cleanup, completedParts, workerVars, session, uploadCalls,
                    failedAttempts, waitCalls, completeInput, arrivals,
                    crashed, metaVars,
                    restVars >>

\* CreateMultipartUpload returns no error, and a nil output or one without an
\* upload id.
CreateMultipartUploadNoId ==
    /\ ~crashed
    /\ pc = "call"
    /\ UseMultipart(contentLength)
    /\ \E out \in {"nil", "no upload id"} :
         replies' = [replies EXCEPT !.create = NilErr, !.createOutput = out]
    /\ ret' = handleError(NoUploadIdErr)
    /\ calls' = [calls EXCEPT !.create = @ + 1]
    /\ pc' = "done"
    /\ UNCHANGED << contentLength, err, position, length, partNum, wg, closed,
                    cleanup, completedParts, workerVars, session, uploadCalls,
                    failedAttempts, waitCalls, completeInput, arrivals,
                    crashed, metaVars,
                    restVars >>

\* CreateMultipartUpload returns a session: the split loop is initialised
\* (b2.go:302-304).
CreateMultipartUpload ==
    /\ ~crashed
    /\ pc = "call"
    /\ UseMultipart(contentLength)
    /\ session' = "open"
    /\ replies' = [replies EXCEPT !.create = NilErr, !.createOutput = "session"]
    /\ calls' = [calls EXCEPT !.create = @ + 1]
    /\ length' = put_get_object_max_bytes
    /\ position' = 0
    /\ pc' = "split"
    /\ UNCHANGED << contentLength, err, ret, partNum, wg, closed, cleanup,
                    completedParts, workerVars, uploadCalls, failedAttempts,
                    waitCalls, completeInput, arrivals, crashed, metaVars,
                    restVars >>

(***************************************************************************)
(* The split loop (b2.go:304-318): one iteration starts one worker.        *)
(***************************************************************************)
\* The mutant of NextPosition that steps by multipart_upload_part_size.
NextPosition_PartSize(pos) == pos + multipart_upload_part_size

\* The loop's step (b2.go:304): the start of the next part.
NextPosition(pos) == pos + put_get_object_max_bytes

\* The mutant of PartLength that never shortens the last part.
PartLength_NoRemainder(pos, len) == len

\* The length of the part that starts at pos, given the loop's length so far
\* (b2.go:305-307).
PartLength(pos, len) ==
    IF pos + len >= contentLength THEN contentLength - pos ELSE len

SplitStep ==
    /\ ~crashed
    /\ pc = "split"
    /\ position < contentLength
    /\ length' = PartLength(position, length)
    /\ wg' = wg + 1
    /\ partNum' = partNum + 1
    /\ wpc' = Append(wpc, "loop")
    /\ wargs' = Append(wargs, [offset |-> position, size |-> length',
                               partNum |-> partNum', length |-> length'])
    /\ attempt' = Append(attempt, 0)
    /\ werr' = Append(werr, NilErr)
    /\ wout' = Append(wout, NilOutput)
    /\ uploadCalls' = Append(uploadCalls, 0)
    /\ failedAttempts' = Append(failedAttempts, 0)
    /\ waitCalls' = Append(waitCalls, 0)
    /\ position' = NextPosition(position)
    /\ replies' = [replies EXCEPT !.upload = Append(@, Pending)]
    /\ UNCHANGED << contentLength, pc, err, ret, closed, cleanup,
                    completedParts, session, calls, completeInput, arrivals,
                    crashed, metaVars, restVars >>

\* The loop ends; the goroutine that closes the channel is started and the
\* caller begins to collect (b2.go:321-328).
StartCollect ==
    /\ ~crashed
    /\ pc = "split"
    /\ ~(position < contentLength)
    /\ cleanup' = "waiting"
    /\ pc' = "collect"
    /\ UNCHANGED << contentLength, err, ret, position, length, partNum, wg,
                    closed, completedParts, workerVars, session, calls,
                    uploadCalls, failedAttempts, waitCalls, completeInput,
                    arrivals, crashed, replies, metaVars,
                    restVars >>

\* The mutant of WaitReturns that returns while one worker is still counted.
WaitReturns_OneEarly(counter) == counter <= 1

\* Whether wg.Wait() returns for this value of the counter.
WaitReturns(counter) == counter = 0

\* wg.Wait() returns and the channel is closed (b2.go:322-323).
CloseChannel ==
    /\ ~crashed
    /\ cleanup = "waiting"
    /\ WaitReturns(wg)
    /\ closed' = TRUE
    /\ cleanup' = "exited"
    /\ UNCHANGED << contentLength, callerVars, wg, workerVars, session, calls,
                    uploadCalls, failedAttempts, waitCalls, completeInput,
                    arrivals, crashed, replies, metaVars,
                    restVars >>

(***************************************************************************)
(* uploadPart (b2.go:160-194), the worker of part p.                       *)
(***************************************************************************)
\* The mutant of AttemptErr that keeps the error of the first failed attempt.
AttemptErr_First(old, e) == IF old # NilErr /\ e # NilErr THEN old ELSE e

\* uploadPart's err after an UploadPart call returned e (b2.go:169): the
\* assignment replaces the error of the attempt before.
AttemptErr(old, e) == e

\* The worker issues UploadPart for its next attempt (b2.go:168-176).
UploadPartCall(p) ==
    /\ ~crashed
    /\ wpc[p] = "loop"
    /\ wpc' = [wpc EXCEPT ![p] = "inflight"]
    /\ uploadCalls' = [uploadCalls EXCEPT ![p] = @ + 1]
    /\ UNCHANGED << contentLength, callerVars, wg, closed, cleanup, wargs,
                    attempt, werr, wout, session, calls, failedAttempts,
                    waitCalls, completeInput, arrivals, crashed, replies,
                    metaVars,
                    restVars >>

\* UploadPart returns without error, and so with an output: the loop is left
\* and the result is built and offered on the channel (b2.go:178-180, 187-193).
UploadPartSucceeds(p) ==
    /\ ~crashed
    /\ wpc[p] = "inflight"
    /\ wout' = [wout EXCEPT ![p] = UploadOutput(p, attempt[p] + 1)]
    /\ werr' = [werr EXCEPT ![p] = AttemptErr(@, NilErr)]
    /\ replies' = [replies EXCEPT !.upload[p] = NilErr]
    /\ wpc' = [wpc EXCEPT ![p] = "send"]
    /\ UNCHANGED << contentLength, callerVars, wg, closed, cleanup, wargs,
                    attempt, session, calls, uploadCalls, failedAttempts,
                    waitCalls, completeInput, arrivals, crashed, metaVars,
                    restVars >>

\* UploadPart returns error e with output out: the worker calls waitfunc
\* (b2.go:181-184).
UploadPartFails(p, e, out) ==
    /\ ~crashed
    /\ wpc[p] = "inflight"
    /\ wout' = [wout EXCEPT ![p] = out]
    /\ werr' = [werr EXCEPT ![p] = AttemptErr(@, e)]
    /\ replies' = [replies EXCEPT !.upload[p] = e]
    /\ wpc' = [wpc EXCEPT ![p] = "wait"]
    /\ failedAttempts' = [failedAttempts EXCEPT ![p] = @ + 1]
    /\ waitCalls' = [waitCalls EXCEPT ![p] = @ + 1]
    /\ UNCHANGED << contentLength, callerVars, wg, closed, cleanup, wargs,
                    attempt, session, calls, uploadCalls, completeInput,
                    arrivals, crashed, metaVars, restVars >>

\* waitfunc returns, attempt++ (b2.go:168), and another attempt follows.
WaitReturnsRetry(p) ==
    /\ ~crashed
    /\ wpc[p] = "wait"
    /\ attempt[p] + 1 < multipart_upload_max_attempts
    /\ attempt' = [attempt EXCEPT ![p] = @ + 1]
    /\ wpc' = [wpc EXCEPT ![p] = "loop"]
    /\ UNCHANGED << contentLength, callerVars, wg, closed, cleanup, wargs,
                    werr, wout, session, calls, uploadCalls, failedAttempts,
                    waitCalls, completeInput, arrivals, crashed, replies,
                    metaVars,
                    restVars >>

\* waitfunc returns after the last attempt: the loop ends and the result is
\* built from uploadOutput.ETag and offered on the channel (b2.go:187-193).
WaitReturnsGiveUp(p) ==
    /\ ~crashed
    /\ wpc[p] = "wait"
    /\ ~(attempt[p] + 1 < multipart_upload_max_attempts)
    /\ wout[p] # NilOutput
    /\ attempt' = [attempt EXCEPT ![p] = @ + 1]
    /\ wpc' = [wpc EXCEPT ![p] = "send"]
    /\ UNCHANGED << contentLength, callerVars, wg, closed, cleanup, wargs,
                    werr, wout, session, calls, uploadCalls, failedAttempts,
                    waitCalls, completeInput, arrivals, crashed, replies,
                    metaVars,
                    restVars >>

\* As WaitReturnsGiveUp with a nil uploadOutput: uploadOutput.ETag is a nil
\* pointer dereference.  The panic runs the deferred wg.Done() and, nothing
\* recovering it, ends the process: no goroutine takes another step.
WaitReturnsPanic(p) ==
    /\ ~crashed
    /\ wpc[p] = "wait"
    /\ ~(attempt[p] + 1 < multipart_upload_max_attempts)
    /\ wout[p] = NilOutput
    /\ attempt' = [attempt EXCEPT ![p] = @ + 1]
    /\ wpc' = [wpc EXCEPT ![p] = "panic"]
    /\ wg' = wg - 1
    /\ crashed' = TRUE
    /\ UNCHANGED << contentLength, callerVars, closed, cleanup, wargs, werr,
                    wout, session, calls, uploadCalls, failedAttempts,
                    waitCalls, completeInput, arrivals, replies, metaVars,
                    restVars >>

\* The deferred wg.Done() of a worker whose result was received (b2.go:161).
WorkerDone(p) ==
    /\ ~crashed
    /\ wpc[p] = "sent"
    /\ wpc' = [wpc EXCEPT ![p] = "done"]
    /\ wg' = wg - 1
    /\ UNCHANGED << contentLength, callerVars, closed, cleanup, wargs, attempt,
                    werr, wout, session, calls, uploadCalls, failedAttempts,
                    waitCalls, completeInput, arrivals, crashed, replies,
                    metaVars,
                    restVars >>

(***************************************************************************)
(* The collector (b2.go:326-336) and the finalization (b2.go:338-375).     *)
(***************************************************************************)
\* The mutant of CollectErr in which the last failure received wins.
CollectErr_LastWins(old, e) == e

\* The mutant of CollectErr that drops the failure.
CollectErr_Dropped(old, e) == old

\* The value of err after a result carrying error e was received
\* (b2.go:329-332).
CollectErr(old, e) == IF old = NilErr THEN e ELSE old

\* The mutant of Result that carries the output of the part's first attempt.
Result_FirstAttempt(p) ==
    [completedPart |-> [ETag |-> UploadOutput(p, 1),
                        PartNumber |-> wargs[p].partNum],
     err |-> werr[p]]

\* The result worker p offers on the channel (b2.go:187-193).
Result(p) ==
    [completedPart |-> [ETag |-> wout[p], PartNumber |-> wargs[p].partNum],
     err |-> werr[p]]

\* The channel is unbuffered: worker p's send and the collector's receive are
\* one step, followed by the loop body on that result.
Receive(p) ==
    /\ ~crashed
    /\ pc = "collect"
    /\ wpc[p] = "send"
    /\ LET result == Result(p) IN
         IF result.err # NilErr
         THEN /\ err' = CollectErr(err, result.err)
              /\ UNCHANGED completedParts
         ELSE /\ completedParts' = Append(completedParts, result.completedPart)
              /\ UNCHANGED err
    /\ wpc' = [wpc EXCEPT ![p] = "sent"]
    /\ arrivals' = Append(arrivals, p)
    /\ UNCHANGED << contentLength, pc, ret, position, length, partNum, wg,
                    closed, cleanup, wargs, attempt, werr, wout, session,
                    calls, uploadCalls, failedAttempts, waitCalls,
                    completeInput, crashed, replies, metaVars,
                    restVars >>

\* The mutant of MustAbort that is off by one on the number of parts.
MustAbort_OffByOne == Len(completedParts) <= partNum \/ err # NilErr

\* The test of b2.go:338.
MustAbort == Len(completedParts) < partNum \/ err # NilErr

\* The mutant of AfterAbort that lets the abort call's error take err's place.
AfterAbort_Surfaced(old, e) == IF e # NilErr THEN e ELSE old

\* The value of err after AbortMultipartUpload returned e: the call's results
\* are assigned to the blank identifier (b2.go:340).
AfterAbort(old, e) == old

\* The channel is closed, the loop ends, and the session is aborted; the
\* call's result is dropped (b2.go:338-344, 372-375).
AbortMultipartUpload ==
    /\ ~crashed
    /\ pc = "collect"
    /\ closed
    /\ MustAbort
    /\ calls' = [calls EXCEPT !.abort = @ + 1]
    /\ \E e \in {NilErr} \cup CallErrs :
         /\ session' = IF e = NilErr THEN "aborted" ELSE session
         /\ replies' = [replies EXCEPT !.abort = e]
         /\ err' = AfterAbort(err, e)
    /\ ret' = ReturnValue(err')
    /\ pc' = "done"
    /\ UNCHANGED << contentLength, position, length, partNum, wg, closed,
                    cleanup, completedParts, workerVars, uploadCalls,
                    failedAttempts, waitCalls, completeInput, arrivals,
                    crashed, metaVars,
                    restVars >>

\* The mutant of AfterComplete that drops the completion call's error.
AfterComplete_Dropped(old, e) == old

\* The value of err after CompleteMultipartUpload returned e (b2.go:351).
AfterComplete(old, e) == e

\* The channel is closed, the loop ends, the parts are sorted and the session
\* is completed; the call's error becomes err (b2.go:345-358, 372-375).
CompleteMultipartUpload ==
    /\ ~crashed
    /\ pc = "collect"
    /\ closed
    /\ ~MustAbort
    /\ completedParts' = SortParts(completedParts)
    /\ completeInput' = completedParts'
    /\ calls' = [calls EXCEPT !.complete = @ + 1]
    /\ \E e \in {NilErr} \cup CallErrs :
         /\ err' = AfterComplete(err, e)
         /\ replies' = [replies EXCEPT !.complete = e]
         /\ session' = IF e = NilErr THEN "completed" ELSE session
    /\ ret' = ReturnValue(err')
    /\ pc' = "done"
    /\ UNCHANGED << contentLength, position, length, partNum, wg, closed,
                    cleanup, workerVars, uploadCalls, failedAttempts,
                    waitCalls, arrivals, crashed, metaVars,
                    restVars >>

(***************************************************************************)
(* Specifications.                                                         *)
(***************************************************************************)
Next ==
    \/ PutObject
    \/ CreateMultipartUploadFails
    \/ CreateMultipartUploadNoId
    \/ CreateMultipartUpload
    \/ SplitStep
    \/ StartCollect
    \/ CloseChannel
    \/ \E p \in Workers : UploadPartCall(p)
    \/ \E p \in Workers : UploadPartSucceeds(p)
    \/ \E p \in Workers : \E f \in UploadFailures(p, attempt[p] + 1) :
         UploadPartFails(p, f.err, f.out)
    \/ \E p \in Workers : WaitReturnsRetry(p)
    \/ \E p \in Workers : WaitReturnsGiveUp(p)
    \/ \E p \in Workers : WaitReturnsPanic(p)
    \/ \E p \in Workers : Receive(p)
    \/ \E p \in Workers : WorkerDone(p)
    \/ AbortMultipartUpload
    \/ CompleteMultipartUpload

Spec == Init /\ [][Next]_vars

\* The steps of the goroutine that called StoreFile; a receive is a step of
\* the collector and of the worker that sends.
Caller ==
    \/ PutObject
    \/ CreateMultipartUploadFails
    \/ CreateMultipartUploadNoId
    \/ CreateMultipartUpload
    \/ SplitStep
    \/ StartCollect
    \/ \E p \in Workers : Receive(p)
    \/ AbortMultipartUpload
    \/ CompleteMultipartUpload

\* The steps of the goroutine of part p (b2.go:317), once it is started.
Worker(p) ==
    /\ p \in Workers
    /\ \/ UploadPartCall(p)
       \/ UploadPartSucceeds(p)
       \/ \E f \in UploadFailures(p, attempt[p] + 1) :
            UploadPartFails(p, f.err, f.out)
       \/ WaitReturnsRetry(p)
       \/ WaitReturnsGiveUp(p)
       \/ WaitReturnsPanic(p)
       \/ Receive(p)
       \/ WorkerDone(p)

\* The Go scheduler runs every goroutine that can take a step, and every
\* remote call and every delay returns.
Fairness ==
    /\ WF_vars(Caller)
    /\ WF_vars(CloseChannel)
    /\ \A p \in 1..MaxParts : WF_vars(Worker(p))

SpecFair == Spec /\ Fairness

\* StoreFile calls of PoolParts parts against a service that fails no call.
InitPool ==
    \E len \in { (PoolParts - 1) * put_get_object_max_bytes + 1,
                 PoolParts * put_get_object_max_bytes } : Entered(len)

NextPool ==
    \/ CreateMultipartUpload
    \/ SplitStep
    \/ StartCollect
    \/ CloseChannel
    \/ \E p \in Workers : UploadPartCall(p)
    \/ \E p \in Workers : UploadPartSucceeds(p)
    \/ \E p \in Workers : Receive(p)
    \/ \E p \in Workers : WorkerDone(p)
    \/ CompleteMultipartUpload

SpecPool == InitPool /\ [][NextPool]_vars

(***************************************************************************)
(* GetFileInfo, ListFiles, RemoveFile and handleError (b2.go:124-276,      *)
(* 380-404).  A Go pointer is a sequence of at most one element: <<>> is   *)
(* nil.  A remote call and the statements up to the next remote call or    *)
(* return are one step.                                                    *)
(***************************************************************************)
\* Largest number of objects in the answer of one ListObjectsV2 call (the
\* service's page size).
MaxObjects == 2

\* strings.TrimPrefix(s, c) and strings.HasSuffix(s, c) for a one-character c.
TrimPrefix(s, c) == IF Len(s) >= 1 /\ s[1] = c THEN Tail(s) ELSE s

HasSuffix(s, c) == Len(s) >= 1 /\ s[Len(s)] = c

\* The local variable key (b2.go:201, 256, 382).
KeyOf(u) == TrimPrefix(u.path, "/")

\* The test of b2.go:207: GetFileInfo takes the listing branch.
IsPrefixPath(u) == HasSuffix(KeyOf(u), "/")

\* The uri paths the operations are called with: no path, the bucket root,
\* a key, a prefix, and a path of two separators.
Paths == { <<>>, <<"/">>, <<"/", "k">>, <<"/", "p", "/">>, <<"/", "/">> }

\* uint64(n) for an int64 n, and the sum of two uint64.  A uint64 is written
\* by the integer `low` congruent to it modulo 2^64 that is nearest to zero:
\* its value is low when wrapped is FALSE and 2^64 + low when wrapped is
\* TRUE.  For magnitudes below 2^62 the sum of two such values modulo 2^64 is
\* again written by the sum of their `low`.
ToUint64(n) == [wrapped |-> n < 0, low |-> n]

AddUint64(a, b) == ToUint64(a.low + b.low)

\* The errors a remote call of these operations may return.
RemoteErrs == CallErrs \cup { AwsErr("NotFound", "") }

\* The keys under the prefix, in the order the service lists them: one more
\* than an answer holds.
KeyNames == <<"a", "b", "c", "d", "e", "f">>

KeyAt(k) == <<"p", "/", KeyNames[k]>>

\* The objects a bucket may hold under the prefix (s3.Object: Key, Size an
\* int64, LastModified in seconds since the Unix epoch).
Objects ==
    [Key : { KeyAt(k) : k \in 1..(MaxObjects + 1) }, Size : {-1, 1, 2},
     LastModified : {1, 2}]

\* The members of a set of key indexes in increasing order.
Ascending(S) ==
    CHOOSE f \in [1..Cardinality(S) -> S] :
      \A i, j \in 1..Cardinality(S) : i < j => f[i] < f[j]

\* What a bucket may hold under the prefix: objects of distinct keys, in the
\* order of their keys.
Listings ==
    UNION { { [i \in 1..Cardinality(S) |->
                 [Key |-> KeyAt(Ascending(S)[i]), Size |-> a[i].Size,
                  LastModified |-> a[i].LastModified]] :
              a \in [1..Cardinality(S) ->
                       [Size : {-1, 1, 2}, LastModified : {1, 2}]] } :
            S \in SUBSET (1..(MaxObjects + 1)) }

\* The answer of one ListObjectsV2 call without a continuation token: the
\* first objects, at most MaxObjects of them; the answer is truncated when
\* there are more.
FirstPage(objects) ==
    SubSeq(objects, 1, IF Len(objects) < MaxObjects THEN Len(objects)
                       ELSE MaxObjects)

IsTruncated(objects) == Len(objects) > MaxObjects

\* The outputs of a HeadObject call that returned no error; VersionId "nil"
\* is the nil pointer of an unversioned bucket.
HeadOutputs ==
    [ContentLength : {-1, 0, 5}, LastModified : {1, 2},
     VersionId : {"nil", "v1", "v2"}]

\* The errors handleError is applied to: service errors of every code it
\* names and of others, and errors that are no awserr.Error.
ErrInputs ==
    { AwsErr(c, m) :
        c \in {"NotFound", "NoSuchBucket", "NoSuchKey", "AccessDenied",
               "MissingRegion", "EmptyStaticCreds", "RequestTimeout",
               "InternalError", "notfound", ""},
        m \in {"", "try again"} }
    \cup { PlainErr(m) : m \in {"connection reset", "NotFound", ""} }

\* One remote call as the service saw it: its input, the error and the output
\* it returned.
RemoteCall(name, u, version, e, out) ==
    [call |-> name, bucket |-> u.host, key |-> KeyOf(u), version |-> version,
     err |-> e, out |-> out]

\* What an operation returns: a result (value, isnil for a nil pointer or nil
\* slice) and an error.
Return(isnil, value, e) == [isnil |-> isnil, value |-> value, err |-> e]

FileInfo(name, size, modified, isfile) ==
    [name |-> name, size |-> size, modified |-> modified, isfile |-> isfile]

\* The loop of ListFiles (b2.go:267-273).
ListFilesResult(contents) ==
    [i \in 1..Len(contents) |->
       FileInfo(contents[i].Key, ToUint64(contents[i].Size),
                contents[i].LastModified, TRUE)]

\* ListFiles from the answer of its ListObjectsV2 call (b2.go:259-275).
ListFilesReturn(e, contents) ==
    IF e # NilErr
    THEN Return(TRUE, <<>>, handleError(e))
    ELSE Return(FALSE, ListFilesResult(contents), NilErr)

\* The loop of GetFileInfo (b2.go:215-221): keysize and modifieddate after
\* the first n entries of filelist; time.Unix(0, 0) is 0.
RECURSIVE KeySize(_, _)
KeySize(filelist, n) ==
    IF n = 0 THEN ToUint64(0)
    ELSE AddUint64(KeySize(filelist, n - 1), filelist[n].size)

RECURSIVE ModifiedDate(_, _)
ModifiedDate(filelist, n) ==
    IF n = 0 THEN 0
    ELSE LET before == ModifiedDate(filelist, n - 1)
         IN  IF before < filelist[n].modified THEN filelist[n].modified
             ELSE before

\* The mutant of ForwardListErr that classifies the error of ListFiles again.
ForwardListErr_Reclassified(e) == handleError(e)

\* The error GetFileInfo returns when ListFiles returned e (b2.go:211-213).
ForwardListErr(e) == e

\* The mutant of InvalidSize that rejects an empty object too.
InvalidSize_Zero(filesize) == filesize <= 0

\* The test of b2.go:232.
InvalidSize(filesize) == filesize < 0

\* The mutant of DeleteVersion that names no version.
DeleteVersion_None(head) == "nil"

\* The VersionId RemoveFile gives to DeleteObject (b2.go:396).
DeleteVersion(head) == head.VersionId

Called(name) == op = name /\ mpc = "call"

\* An operation returns r after the remote call c.
ReturnAfter(c, r) ==
    /\ trace' = Append(trace, c)
    /\ mret' = r
    /\ mpc' = "done"
    /\ UNCHANGED << op, uri, arg, resp, stored >>

StoreUntouched ==
    UNCHANGED << contentLength, callerVars, wg, closed, cleanup, workerVars,
                 session, calls, uploadCalls, failedAttempts, waitCalls,
                 completeInput, arrivals, crashed, replies, restVars >>

\* ListFiles: the listing call fails (b2.go:259-265).
ListFilesFails ==
    /\ Called("ListFiles")
    /\ \E e \in RemoteErrs :
         ReturnAfter(RemoteCall("ListObjectsV2", uri, "nil", e, <<>>),
                     ListFilesReturn(e, <<>>))
    /\ StoreUntouched

\* ListFiles: the listing call answers (b2.go:259-275).
ListFilesReturns ==
    /\ Called("ListFiles")
    /\ LET contents == FirstPage(stored)
       IN  ReturnAfter(
             RemoteCall("ListObjectsV2", uri, "nil", NilErr, contents),
             ListFilesReturn(NilErr, contents))
    /\ StoreUntouched

\* GetFileInfo, prefix branch: ListFiles returns an error (b2.go:207-213).
GetFileInfoListFails ==
    /\ Called("GetFileInfo")
    /\ IsPrefixPath(uri)
    /\ \E e \in RemoteErrs :
         ReturnAfter(RemoteCall("ListObjectsV2", uri, "nil", e, <<>>),
                     Return(TRUE, <<>>,
                            ForwardListErr(ListFilesReturn(e, <<>>).err)))
    /\ StoreUntouched

\* GetFileInfo, prefix branch: the aggregate of the listing (b2.go:207-221,
\* 243-248).
GetFileInfoPrefix ==
    /\ Called("GetFileInfo")
    /\ IsPrefixPath(uri)
    /\ LET contents == FirstPage(stored)
           filelist == ListFilesReturn(NilErr, contents).value
           n == Len(filelist)
       IN  ReturnAfter(
               RemoteCall("ListObjectsV2", uri, "nil", NilErr, contents),
               Return(FALSE,
                      << FileInfo(KeyOf(uri), KeySize(filelist, n),
                                  ModifiedDate(filelist, n), FALSE) >>,
                      NilErr))
    /\ StoreUntouched

\* GetFileInfo, object branch: HeadObject fails (b2.go:222-231).
GetFileInfoHeadFails ==
    /\ Called("GetFileInfo")
    /\ ~IsPrefixPath(uri)
    /\ \E e \in RemoteErrs :
         ReturnAfter(RemoteCall("HeadObject", uri, "nil", e, <<>>),
                     Return(TRUE, <<>>, handleError(e)))
    /\ StoreUntouched

\* GetFileInfo, object branch: HeadObject answers (b2.go:222-248).
GetFileInfoKey ==
    /\ Called("GetFileInfo")
    /\ ~IsPrefixPath(uri)
    /\ \E head \in HeadOutputs :
         ReturnAfter(
           RemoteCall("HeadObject", uri, "nil", NilErr, <<head>>),
           IF InvalidSize(head.ContentLength)
           THEN Return(TRUE, <<>>, PlainErr("invalid file info"))
           ELSE Return(FALSE,
                       << FileInfo(KeyOf(uri), ToUint64(head.ContentLength),
                                   head.LastModified, TRUE) >>,
                       NilErr))
    /\ StoreUntouched

\* RemoveFile: HeadObject fails (b2.go:385-391).
RemoveFileHeadFails ==
    /\ Called("RemoveFile")
    /\ \E e \in RemoteErrs :
         ReturnAfter(RemoteCall("HeadObject", uri, "nil", e, <<>>),
                     Return(TRUE, <<>>, handleError(e)))
    /\ StoreUntouched

\* RemoveFile: HeadObject answers and resp holds its output (b2.go:385-391).
RemoveFileHead ==
    /\ Called("RemoveFile")
    /\ \E head \in HeadOutputs :
         /\ trace' = Append(trace, RemoteCall("HeadObject", uri, "nil",
                                              NilErr, <<head>>))
         /\ resp' = <<head>>
    /\ mpc' = "delete"
    /\ UNCHANGED << op, uri, arg, mret, stored >>
    /\ StoreUntouched

\* RemoveFile: DeleteObject is called and its error returned (b2.go:393-403).
RemoveFileDelete ==
    /\ op = "RemoveFile"
    /\ mpc = "delete"
    /\ \E e \in {NilErr} \cup RemoteErrs :
         ReturnAfter(
           RemoteCall("DeleteObject", uri, DeleteVersion(resp[1]), e, <<>>),
           Return(TRUE, <<>>, ReturnValue(e)))
    /\ StoreUntouched

\* handleError applied to arg.
Classify ==
    /\ Called("handleError")
    /\ mret' = Return(TRUE, <<>>, handleError(arg))
    /\ mpc' = "done"
    /\ UNCHANGED << op, uri, arg, resp, trace, stored >>
    /\ StoreUntouched

\* One of the operations is called on a uri, or handleError on an error;
\* StoreFile is not running.
InitBackend ==
    /\ pc = "idle"
    /\ Fresh(0)
    /\ RestIdle
    /\ mpc = "call"
    /\ resp = <<>>
    /\ trace = <<>>
    /\ mret = NoResult
    /\ \/ /\ op \in {"GetFileInfo", "ListFiles"}
          /\ uri \in [host : {"bucket"}, path : Paths]
          /\ arg = NilErr
          /\ stored \in Listings
       \/ /\ op = "RemoveFile"
          /\ uri \in [host : {"bucket"}, path : Paths]
          /\ arg = NilErr
          /\ stored = <<>>
       \/ /\ op = "handleError"
          /\ uri = StoreUri
          /\ arg \in ErrInputs
          /\ stored = <<>>

NextBackend ==
    \/ ListFilesFails
    \/ ListFilesReturns
    \/ GetFileInfoListFails
    \/ GetFileInfoPrefix
    \/ GetFileInfoHeadFails
    \/ GetFileInfoKey
    \/ RemoveFileHeadFails
    \/ RemoveFileHead
    \/ RemoveFileDelete
    \/ Classify

SpecBackend == InitBackend /\ [][NextBackend]_vars

\* Every operation of the backend, one call in each behaviour.
InitAll == Init \/ InitBackend

NextAll == Next \/ NextBackend

SpecAll == InitAll /\ [][NextAll]_vars

(***************************************************************************)
(* progressSectionReader (b2.go:61-104) over an io.SectionReader.  The     *)
(* reader psr and a plain section reader ref of the same range are given   *)
(* the same calls.  Offsets are relative to the start of the range, and    *)
(* the byte at offset o of the range is the number o + 1.                  *)
(***************************************************************************)
\* Largest size of the range.
MaxRange == 2

\* Largest number of Read and Seek calls on one reader.
MaxReaderCalls == 4

EOF == PlainErr("EOF")

errWhence == PlainErr("Seek: invalid whence")

errOffset == PlainErr("Seek: invalid offset")

\* What a Read or a Seek returned: n bytes with their data, or an offset.
ReadResult(n, data, e) == [n |-> n, data |-> data, offset |-> 0, err |-> e]

SeekResult(offset, e) == [n |-> 0, data |-> <<>>, offset |-> offset, err |-> e]

Bytes(off, n) == [i \in 1..n |-> off + i]

\* io.SectionReader.Read with a buffer of len bytes, when the ReadAt of the
\* underlying reader delivers `got` of the bytes asked for (all of them and
\* no error, or fewer and an error).
SectionRead(sr, len, got) ==
    IF sr.off >= sr.size THEN ReadResult(0, <<>>, EOF)
    ELSE LET max == sr.size - sr.off
             asked == IF len > max THEN max ELSE len
             n == IF got < asked THEN got ELSE asked
         IN  ReadResult(n, Bytes(sr.off, n),
                        IF n < asked THEN PlainErr("read error") ELSE NilErr)

\* io.SectionReader.Seek: whence 0, 1, 2 are io.SeekStart, io.SeekCurrent and
\* io.SeekEnd.
SectionSeek(sr, offset, whence) ==
    IF whence \notin {0, 1, 2} THEN SeekResult(0, errWhence)
    ELSE LET target == offset + (IF whence = 0 THEN 0
                                 ELSE IF whence = 1 THEN sr.off ELSE sr.size)
         IN  IF target < 0 THEN SeekResult(0, errOffset)
             ELSE SeekResult(target, NilErr)

\* The section reader after the call returned res.
AfterRead(sr, res) == [sr EXCEPT !.off = @ + res.n]

AfterSeek(sr, res) == IF res.err = NilErr THEN [sr EXCEPT !.off = res.offset]
                      ELSE sr

\* The progress bar of the progressbar package as psr uses it: its maximum,
\* the count added since the last Reset, whether it is finished, its
\* description, and the numbers Add was given so far.  Add makes the bar finished when the count arrives at the
\* maximum; `passing` is whether it also does when the count passes the
\* maximum without being equal to it, which this repository does not fix.
NewOptions64(max) ==
    [max |-> max, current |-> 0, finished |-> FALSE, description |-> "",
     adds |-> <<>>]

Describe(bar, text) == [bar EXCEPT !.description = text]

Add(bar, n, passing) ==
    LET current == bar.current + n
    IN  [bar EXCEPT !.current = current,
                    !.adds = Append(@, n),
                    !.finished = \/ @
                                 \/ bar.max > 0 /\ current = bar.max
                                 \/ bar.max > 0 /\ current > bar.max /\ passing]

IsFinished(bar) == bar.finished

Reset(bar) == [bar EXCEPT !.current = 0, !.finished = FALSE]

\* newProgressSectionReader (b2.go:61-73).
newProgressSectionReader(sr, enableProgress) ==
    [sr |-> sr,
     bar |-> IF enableProgress THEN << NewOptions64(sr.size) >> ELSE <<>>,
     read |-> 0]

\* The bar after a Read that returned n bytes (b2.go:81-95).
BarAfterRead(bar, read, size, n, passing) ==
    IF read < size
    THEN LET described == IF read = 0 THEN Describe(bar, "signing") ELSE bar
             added == Add(described, n, passing)
         IN  IF IsFinished(added) THEN Describe(Reset(added), "uploading")
             ELSE added
    ELSE Add(bar, n, passing)

\* The mutant of ReadCount that keeps the count of the last read only.
ReadCount_LastOnly(read, n) == n

\* psr.read after a Read that returned n bytes (b2.go:97).
ReadCount(read, n) == read + n

\* The mutant of ReadReturns that returns the cumulative count as n.
ReadReturns_Cumulative(res, read) == [res EXCEPT !.n = read + res.n]

\* What psr.Read returns when psr.sr.Read returned res (b2.go:78, 99).
ReadReturns(res, read) == res

Description(reader) ==
    IF reader.bar = <<>> THEN "" ELSE reader.bar[1].description

\* The data of the reads that returned the whole range at once, with the one
\* that returned res from offset `before`.
NotedPasses(passes, before, res, size) ==
    IF size > 0 /\ before = 0 /\ res.n = size THEN Append(passes, res.data)
    ELSE passes

StoreAndMetaUntouched ==
    UNCHANGED << contentLength, callerVars, wg, closed, cleanup, workerVars,
                 session, calls, uploadCalls, failedAttempts, waitCalls,
                 completeInput, arrivals, crashed, replies, metaVars >>

\* psr.Read(p) with a buffer of len bytes (b2.go:76-99), and the same Read on
\* ref.
Read ==
    /\ rio.calls < MaxReaderCalls
    /\ \E len \in 0..(MaxRange + 1), got \in 0..(MaxRange + 1),
          passing \in BOOLEAN :
         LET res == SectionRead(psr.sr, len, got)
             refRes == SectionRead(ref, len, got)
             bar == IF psr.bar = <<>> THEN <<>>
                    ELSE << BarAfterRead(psr.bar[1], psr.read, psr.sr.size,
                                         res.n, passing) >>
         IN  /\ psr' = [sr |-> AfterRead(psr.sr, res), bar |-> bar,
                        read |-> ReadCount(psr.read, res.n)]
             /\ ref' = AfterRead(ref, refRes)
             /\ rio' = [calls |-> rio.calls + 1,
                        reads |-> rio.reads + 1,
                        last |-> << ReadReturns(res, psr.read) >>,
                        refLast |-> << refRes >>,
                        total |-> rio.total + res.n,
                        reached |-> \/ rio.reached
                                    \/ /\ rio.total < psr.sr.size
                                       /\ rio.total + res.n = psr.sr.size,
                        switched |-> \/ rio.switched
                                     \/ /\ bar # <<>>
                                        /\ bar[1].description = "uploading",
                        passes |-> NotedPasses(rio.passes, psr.sr.off, res,
                                               psr.sr.size),
                        starts |-> rio.starts]
    /\ StoreAndMetaUntouched
    /\ UNCHANGED << runVars, reporterVars, lockVars >>

\* psr.Seek(offset, whence) (b2.go:102-104), and the same Seek on ref.
Seek ==
    /\ rio.calls < MaxReaderCalls
    /\ \E offset \in -1..1, whence \in 0..3 :
         LET res == SectionSeek(psr.sr, offset, whence)
             refRes == SectionSeek(ref, offset, whence)
         IN  /\ psr' = [psr EXCEPT !.sr = AfterSeek(psr.sr, res)]
             /\ ref' = AfterSeek(ref, refRes)
             /\ rio' = [rio EXCEPT !.calls = @ + 1, !.last = << res >>,
                                   !.refLast = << refRes >>]
    /\ StoreAndMetaUntouched
    /\ UNCHANGED << runVars, reporterVars, lockVars >>

\* A progressSectionReader was made over a range, with progress enabled or
\* not; no operation of the backend is running.
InitReader ==
    /\ pc = "idle"
    /\ Fresh(0)
    /\ MetaIdle
    /\ \E size \in 0..MaxRange, enableProgress \in BOOLEAN :
         /\ psr = newProgressSectionReader(SectionReader(size, 0),
                                           enableProgress)
         /\ ref = SectionReader(size, 0)
    /\ rio = NoCallsYet
    /\ RunIdle
    /\ ReporterIdle
    /\ LocksIdle

NextReader ==
    \/ Read
    \/ Seek

SpecReader == InitReader /\ [][NextReader]_vars

\* The reader as the body of a part (b2.go:160-185, 314-317): uploadPart is
\* given a new reader and passes it as Body to every UploadPart call.  The
\* client reads and seeks the body as it chooses during a call; between two
\* attempts uploadPart only calls waitfunc, so the body is handed over where
\* the call before left it.
BodyAtRetry(reader) == reader.sr.off

\* An attempt failed and the next one starts (b2.go:168-184): attempt++ and
\* UploadPart is called with the same input.
Retry ==
    /\ rio.starts # <<>>
    /\ Len(rio.starts) < multipart_upload_max_attempts
    /\ rio' = [rio EXCEPT !.starts = Append(@, BodyAtRetry(psr))]
    /\ UNCHANGED << psr, ref >>
    /\ StoreAndMetaUntouched
    /\ UNCHANGED << runVars, reporterVars, lockVars >>

\* uploadPart was started on a part of some length and has called UploadPart
\* for the first time.
InitUploadBody ==
    /\ pc = "idle"
    /\ Fresh(0)
    /\ MetaIdle
    /\ \E size \in 1..MaxRange, enableProgress \in BOOLEAN :
         /\ psr = newProgressSectionReader(SectionReader(size, 0),
                                           enableProgress)
         /\ ref = SectionReader(size, 0)
    /\ rio = [NoCallsYet EXCEPT !.starts = << 0 >>]
    /\ RunIdle
    /\ ReporterIdle
    /\ LocksIdle

NextUploadBody ==
    \/ Read
    \/ Seek
    \/ Retry

SpecUploadBody == InitUploadBody /\ [][NextUploadBody]_vars

(***************************************************************************)
(* A backup run: main's function run and cleanupBackupPrefix.  The backend *)
(* and the local steps (arguments, configuration, archive, encryption,     *)
(* files) are the environment: each returns one of the outcomes its        *)
(* signature allows.  Times are whole hours.                               *)
(***************************************************************************)
\* Largest number of files ListFiles returns to cleanupBackupPrefix.
MaxFiles == 2

\* Largest cfg.Backup.Hours, and largest age of a listed file in hours.
MaxHours == 2

\* The errors a step of the run fails with.
StepErrs == { PlainErr("failure") }

\* fmt.Errorf(format, cause.Error()): the format and the text put into it.
Errorf(format, cause) ==
    [kind |-> "plain", code |-> format, msg |-> ErrorText(cause)]

\* A call of run on the backend, and the error it returned.
BackendCall(name, e) == [name |-> name, err |-> e]

\* run returns value.
RunReturns(value) == [run EXCEPT !.pc = "done", !.ret = value]

\* run returns the error of the stage that failed.
RunFails(stage, value) ==
    [run EXCEPT !.pc = "done", !.failed = stage, !.ret = value]

RunUntouched ==
    UNCHANGED << contentLength, callerVars, wg, closed, cleanup, workerVars,
                 session, calls, uploadCalls, failedAttempts, waitCalls,
                 completeInput, arrivals, crashed, replies, metaVars,
                 readerVars, reporterVars, lockVars >>

\* parseArgs (part_008:98-102): an error, a request to terminate (help or
\* version), or the arguments.
ParseArgs ==
    /\ run.pc = "start"
    /\ \/ \E e \in StepErrs : run' = RunFails("arguments", Errorf("%s", e))
       \/ run' = RunReturns(NilErr)
       \/ run' = [run EXCEPT !.pc = "arguments"]
    /\ RunUntouched

\* The two positional arguments (part_008:104-118): isDirectory on the first
\* and url.ParseRequestURI on the second.
CheckArguments ==
    /\ run.pc = "arguments"
    /\ \/ \E e \in StepErrs :
            run' = RunFails("arguments",
                     Errorf("first argument must be a valid directory path: %s", e))
       \/ run' = RunFails("arguments",
                   Errorf("first argument must be a valid directory path", NilErr))
       \/ \E e \in StepErrs :
            run' = RunFails("arguments",
                     Errorf("could not parse output URI: %s", e))
       \/ run' = [run EXCEPT !.pc = "config"]
    /\ RunUntouched

\* initConfig (part_008:120-135).
InitConfig ==
    /\ run.pc = "config"
    /\ \/ \E e \in StepErrs : run' = RunFails("config", Errorf("%s", e))
       \/ run' = [run EXCEPT !.pc = "backend"]
    /\ RunUntouched

\* common.CreateStorageBackend (part_008:137-144).
CreateStorageBackend ==
    /\ run.pc = "backend"
    /\ \/ \E e \in StepErrs :
            run' = RunFails("backend", Errorf("failed to create backend: %s", e))
       \/ run' = [run EXCEPT !.pc = "validate"]
    /\ RunUntouched

\* The validation of the output URI (part_008:146-159): GetFileInfo returns
\* an error, or the info of a file or of a prefix.
ValidateOutput ==
    /\ run.pc = "validate"
    /\ \E e \in StepErrs \cup {PlainErr(ErrFileNotFound), NilErr},
          isfile \in BOOLEAN :
         LET called == [run EXCEPT
                          !.calls = Append(@, BackendCall("GetFileInfo", e))]
         IN  IF e # NilErr
             THEN /\ ~isfile
                  /\ IF ErrorText(e) = ErrFileNotFound
                     THEN run' = [called EXCEPT !.pc = "encryption"]
                     ELSE run' = [called EXCEPT
                                    !.pc = "done", !.failed = "validate",
                                    !.ret = Errorf("backend operation failed: %s", e)]
             ELSE IF isfile
                  THEN run' = [called EXCEPT
                                 !.pc = "done", !.failed = "validate",
                                 !.ret = Errorf("output URI must be a directory prefix, but a file path was specified: %q", NilErr)]
                  ELSE run' = [called EXCEPT !.pc = "encryption"]
    /\ RunUntouched

\* initEncryption (part_008:161-169).
InitEncryption ==
    /\ run.pc = "encryption"
    /\ \/ \E e \in StepErrs : run' = RunFails("encryption", Errorf("%s", e))
       \/ run' = [run EXCEPT !.pc = "archive"]
    /\ RunUntouched

\* os.CreateTemp made the file `name`, or failed (created is FALSE).
CreateTemp(files, name, created) ==
    IF created THEN files \cup {name} ELSE files

\* os.Remove(path); the empty path names no file.
Remove(files, path) == files \ {path}

\* archiveDirectory (part_008:171-180, 365-415), and the choice of
\* part_008:184.  It fails before or after it has created its temporary
\* file, and returns the empty path when it fails.
ArchiveDirectory ==
    /\ run.pc = "archive"
    /\ \/ \E e \in StepErrs, created \in BOOLEAN :
            LET made == CreateTemp(run.files, "archive", created)
            IN  run' = [RunFails("archive", Errorf("%s", e)) EXCEPT
                          !.files = Remove(made, "")]
       \/ run' = [run EXCEPT
                     !.files = CreateTemp(@, "archive", TRUE),
                     !.pc = IF run.recipients > 0 THEN "encrypt" ELSE "store"]
    /\ RunUntouched

\* encryptFile (part_008:184-195, 417-467): as archiveDirectory, with the
\* temporary file of the encrypted archive.
EncryptFile ==
    /\ run.pc = "encrypt"
    /\ \/ \E e \in StepErrs, created \in BOOLEAN :
            LET made == CreateTemp(run.files, "encrypted", created)
            IN  run' = [RunFails("encrypt", Errorf("%s", e)) EXCEPT
                          !.files = Remove(Remove(made, "archive"), "")]
       \/ run' = [run EXCEPT !.files = CreateTemp(@, "encrypted", TRUE),
                             !.pc = "store"]
    /\ RunUntouched

\* The mutant of CleanUpPrefix that rotates whatever the upload returned.
CleanUpPrefix_Always(e, hours) == hours > 0

\* Whether run cleans up the backup prefix (part_008:240).
CleanUpPrefix(e, hours) == e = NilErr /\ hours > 0

\* The upload (part_008:204-249): os.Open, the uri of the new archive, Stat
\* and backend.StoreFile, then the removal of the local files and the choice
\* of part_008:240.  `local` is the error of the first three, e of StoreFile.
StoreArchive ==
    /\ run.pc = "store"
    /\ \E opened \in BOOLEAN, local \in StepErrs \cup {NilErr},
          e \in StepErrs \cup {NilErr} :
         LET called == local = NilErr
             result == IF called THEN e ELSE local
             outputEncryptedPath == IF run.recipients > 0 THEN "encrypted"
                                    ELSE "archive"
             left == Remove(Remove(run.files, "archive"), outputEncryptedPath)
             noted == IF called
                      THEN [run EXCEPT
                              !.calls = Append(@, BackendCall("StoreFile", e)),
                              !.err = result,
                              !.files = left]
                      ELSE [run EXCEPT !.err = result, !.files = left]
             failed == IF result = NilErr THEN noted
                       ELSE [noted EXCEPT !.failed = "store"]
             format == IF ~opened THEN "could not open output file: %s"
                       ELSE "unable to write backup archive of %q to %q: %s"
         IN  /\ called => opened
             /\ e # NilErr => called
             /\ IF CleanUpPrefix(result, run.hours)
                THEN run' = [failed EXCEPT !.pc = "list"]
                ELSE run' = [failed EXCEPT
                               !.pc = "done",
                               !.ret = IF result = NilErr THEN NilErr
                                       ELSE Errorf(format, result)]
    /\ RunUntouched

\* cleanupBackupPrefix, the listing (part_008:469-474): ListFiles fails, or
\* returns files of some ages.
ListOld ==
    /\ run.pc = "list"
    /\ \/ \E e \in StepErrs :
            run' = [run EXCEPT
                      !.calls = Append(@, BackendCall("ListFiles", e)),
                      !.pc = "done",
                      !.failed = "rotation",
                      !.err = Errorf("could not list remote files: %s", e),
                      !.ret = Errorf("failed to clean up backup prefix: %s",
                                Errorf("could not list remote files: %s", e))]
       \/ \E n \in 0..MaxFiles : \E ages \in [1..n -> 0..MaxHours] :
            run' = [run EXCEPT
                      !.calls = Append(@, BackendCall("ListFiles", NilErr)),
                      !.pc = "remove",
                      !.filelist = ages,
                      !.next = 1]
    /\ RunUntouched

\* Whether a file of that age is removed (part_008:481).
IsOld(age, hours) == age >= hours

\* cleanupBackupPrefix, one iteration of the loop (part_008:478-491) on a
\* file: a young file is kept; for an old one the uri is built, which can
\* fail, and RemoveFile is called, whose error is reported and dropped.
RemoveOld ==
    /\ run.pc = "remove"
    /\ run.next <= Len(run.filelist)
    /\ \E parsed \in BOOLEAN, e \in StepErrs \cup {NilErr} :
         IF IsOld(run.filelist[run.next], run.hours) /\ parsed
         THEN run' = [run EXCEPT
                        !.calls = Append(@, BackendCall("RemoveFile", e)),
                        !.next = @ + 1]
         ELSE /\ e = NilErr
              /\ IsOld(run.filelist[run.next], run.hours) \/ parsed
              /\ run' = [run EXCEPT !.next = @ + 1]
    /\ RunUntouched

\* cleanupBackupPrefix returns nil after the last file (part_008:493), and
\* so does run (part_008:247-251).
RotationDone ==
    /\ run.pc = "remove"
    /\ run.next > Len(run.filelist)
    /\ run' = RunReturns(NilErr)
    /\ RunUntouched

\* run was called, with some cfg.Backup.Hours in the configuration and some
\* number of recipients; nothing else is running.
InitRun ==
    /\ pc = "idle"
    /\ Fresh(0)
    /\ MetaIdle
    /\ ReaderIdle
    /\ ReporterIdle
    /\ LocksIdle
    /\ \E hours \in 0..MaxHours, recipients \in 0..1 :
         run = [NotRunning EXCEPT !.pc = "start", !.hours = hours,
                                  !.recipients = recipients]

NextRun ==
    \/ ParseArgs
    \/ CheckArguments
    \/ InitConfig
    \/ CreateStorageBackend
    \/ ValidateOutput
    \/ InitEncryption
    \/ ArchiveDirectory
    \/ EncryptFile
    \/ StoreArchive
    \/ ListOld
    \/ RemoveOld
    \/ RotationDone

SpecRun == InitRun /\ [][NextRun]_vars

(***************************************************************************)
(* MultiProgressbarReporter (progress.go:69-188).  Its calls hold barLock  *)
(* from their first statement to their return, so each call is one step.   *)
(* The bars are those of the progressbar package, as modelled above; a     *)
(* bar writes through its writer when that package chooses to render.      *)
(***************************************************************************)
\* Largest number of tasks in the map of bars.
MaxTasks == 2

\* Largest size of a task.
MaxTaskSize == 2

\* Largest number of calls on one reporter.
MaxReporterCalls == 5

\* The indexes the calls are given, and the increments of AdvanceTask.
Indexes == (-1)..(MaxTasks + 1)

Increments == 0..MaxTaskSize

\* fmt.Errorf("task index %d outside of available range", index).
OutsideRange(index) ==
    PlainErr("task index " \o ToString(index) \o " outside of available range")

\* _, prs := mpr.bars[index].
Present(reporter, index) == index \in DOMAIN reporter.bars

\* slices.Contains and slices.Index: the position from 0, or -1.
Contains(s, x) == \E i \in 1..Len(s) : s[i] = x

Index(s, x) ==
    IF Contains(s, x)
    THEN (CHOOSE i \in 1..Len(s) :
            s[i] = x /\ \A j \in 1..(i - 1) : s[j] # x) - 1
    ELSE -1

\* bar.Finish(): the count is set to the maximum, then Add(0).
Finish(bar, passing) == Add([bar EXCEPT !.current = bar.max], 0, passing)

\* m with m[k] = v, and m without k.
Put(m, k, v) == [i \in DOMAIN m \cup {k} |-> IF i = k THEN v ELSE m[i]]

Delete(m, k) == [i \in DOMAIN m \ {k} |-> m[i]]

\* The task that remove moves into the slot `active` (from 0) of the list
\* `shorter` it has cut, 0 if it moves none (progress.go:179).
Moved(shorter, active) ==
    IF Len(shorter) > 0 /\ Len(shorter) # active THEN shorter[active + 1]
    ELSE 0

\* mpr.remove(index) for an index of the active list (progress.go:170-188).
remove(reporter, index) ==
    LET active == Index(reporter.active, index)
        last == reporter.active[Len(reporter.active)]
        shorter == SubSeq([reporter.active EXCEPT ![active + 1] = last],
                          1, Len(reporter.active) - 1)
        discarded == Put(reporter.writer, index, 0)
        moved == Moved(shorter, active)
        rewired == IF moved # 0 THEN Put(discarded, moved, active + 1)
                   ELSE discarded
    IN  [reporter EXCEPT !.active = shorter,
                         !.bars = Delete(reporter.bars, index),
                         !.writer = Delete(rewired, index)]

\* The lines the bars write to in remove: the removed bar is cleared, the
\* moved one is cleared on its old line and rendered on its new one.
RemoveLines(reporter, index) ==
    LET active == Index(reporter.active, index)
        moved == Moved(remove(reporter, index).active, active)
    IN  {reporter.writer[index]}
        \cup (IF moved # 0 THEN {reporter.writer[moved], active + 1} ELSE {})

\* multiProgressbarWriter.Write and move (progress.go:191-214): curLine
\* becomes the line of the writer that wrote last, if one of the writers of
\* `lines` wrote; line 0 is io.Discard.
CurLines(reporter, lines) == {reporter.curLine} \cup (lines \ {0})

\* A call returned e.
CallReturns(name, index, increment, e) ==
    [calls |-> mio.calls + 1, last |-> name, index |-> index,
     increment |-> increment, err |-> e, before |-> mpr, panicked |-> FALSE]

\* A call panicked.
CallPanics(name, index) ==
    [calls |-> mio.calls + 1, last |-> name, index |-> index,
     increment |-> 0, err |-> Pending, before |-> mpr, panicked |-> TRUE]

\* The process is alive and the reporter can be called.
CanCall == mio.calls < MaxReporterCalls /\ ~mio.panicked

ReporterUntouched ==
    UNCHANGED << contentLength, callerVars, wg, closed, cleanup, workerVars,
                 session, calls, uploadCalls, failedAttempts, waitCalls,
                 completeInput, arrivals, crashed, replies, metaVars,
                 readerVars, runVars, lockVars >>

\* The reporter when AdvanceTask has put the task on the active list
\* (progress.go:91-103).
Shown(reporter, index) ==
    IF Contains(reporter.active, index) THEN reporter
    ELSE LET n == Len(reporter.active) + 1
         IN  [reporter EXCEPT !.active = Append(@, index),
                              !.writer = Put(@, index, n),
                              !.totLines = IF n > @ THEN @ + 1 ELSE @]

\* CreateFileTask(size) (progress.go:117-135).
CreateFileTask ==
    /\ CanCall
    /\ Cardinality(DOMAIN mpr.bars) < MaxTasks
    /\ \E size \in 1..MaxTaskSize :
         LET index == Cardinality(DOMAIN mpr.bars) + 1
         IN  /\ mpr' = [mpr EXCEPT
                          !.bars = Put(@, index, NewOptions64(size)),
                          !.writer = Put(@, index, 0)]
             /\ mio' = CallReturns("CreateFileTask", index, 0, NilErr)
    /\ ReporterUntouched

\* AdvanceTask(index, increment) (progress.go:82-113).
AdvanceTask ==
    /\ CanCall
    /\ \E index \in Indexes, increment \in Increments, passing \in BOOLEAN :
         IF ~Present(mpr, index)
         THEN /\ mpr' = mpr
              /\ mio' = CallReturns("AdvanceTask", index, increment,
                                    OutsideRange(index))
         ELSE /\ mio' = CallReturns("AdvanceTask", index, increment, NilErr)
              /\ IF IsFinished(mpr.bars[index]) THEN mpr' = mpr
                 ELSE LET shown == Shown(mpr, index)
                          added == [shown EXCEPT
                                      !.bars[index] = Add(@, increment, passing)]
                          finished == IsFinished(added.bars[index])
                          lines == {shown.writer[index]}
                                   \cup (IF finished
                                         THEN RemoveLines(added, index) ELSE {})
                      IN  \E line \in CurLines(mpr, lines) :
                            mpr' = [(IF finished THEN remove(added, index)
                                     ELSE added) EXCEPT !.curLine = line]
    /\ ReporterUntouched

\* DescribeTask(index, description) (progress.go:138-149).
DescribeTask ==
    /\ CanCall
    /\ \E index \in Indexes :
         IF ~Present(mpr, index)
         THEN /\ mpr' = mpr
              /\ mio' = CallReturns("DescribeTask", index, 0,
                                    OutsideRange(index))
         ELSE /\ mio' = CallReturns("DescribeTask", index, 0, NilErr)
              /\ \E line \in CurLines(mpr, {mpr.writer[index]}) :
                   mpr' = [mpr EXCEPT !.bars[index] = Describe(@, "task"),
                                      !.curLine = line]
    /\ ReporterUntouched

\* FinishTask(index) (progress.go:152-167).  remove of a task that is not
\* on the active list indexes the list at -1, which panics (progress.go:171-
\* 173).
FinishTask ==
    /\ CanCall
    /\ \E index \in Indexes, passing \in BOOLEAN :
         IF ~Present(mpr, index)
         THEN /\ mpr' = mpr
              /\ mio' = CallReturns("FinishTask", index, 0, OutsideRange(index))
         ELSE LET done == [mpr EXCEPT !.bars[index] = Finish(@, passing)]
                  finished == IsFinished(done.bars[index])
              IN  IF finished /\ ~Contains(done.active, index)
                  THEN /\ mio' = CallPanics("FinishTask", index)
                       /\ mpr' = done
                  ELSE /\ mio' = CallReturns("FinishTask", index, 0, NilErr)
                       /\ \E line \in CurLines(mpr,
                                       {mpr.writer[index]}
                                       \cup (IF finished
                                             THEN RemoveLines(done, index)
                                             ELSE {})) :
                            mpr' = [(IF finished THEN remove(done, index)
                                     ELSE done) EXCEPT !.curLine = line]
    /\ ReporterUntouched

\* A reporter was made; nothing else is running.
InitReporter ==
    /\ pc = "idle"
    /\ Fresh(0)
    /\ MetaIdle
    /\ ReaderIdle
    /\ RunIdle
    /\ ReporterIdle
    /\ LocksIdle

NextReporter ==
    \/ CreateFileTask
    \/ AdvanceTask
    \/ DescribeTask
    \/ FinishTask

SpecReporter == InitReporter /\ [][NextReporter]_vars

(***************************************************************************)
(* The locks of MultiProgressbarReporter (progress.go:82-200) under        *)
(* concurrent callers.  A caller takes barLock at the first statement of   *)
(* its call and releases it, deferred, at the return; a bar that renders   *)
(* during the call writes through multiProgressbarWriter.Write, which      *)
(* takes and releases wrLock.  The statements of a call between Lock and   *)
(* Unlock are the step of that call above.                                 *)
(***************************************************************************)
\* Number of goroutines that call the reporter.
MaxCallers == 2

\* Number of calls the goroutines make between them.
MaxLockedCalls == 3

Callers == 1..MaxCallers

\* The mutant of CanLock that lets Lock return while the mutex is held.
CanLock_Held(mutex) == TRUE

\* sync.Mutex.Lock returns only when no goroutine holds the mutex.
CanLock(mutex) == mutex = 0

\* Caller t holds barLock and has not yet run the statements of its call.
InBody(t) == callers[t].pc = "body" /\ callers[t].seen = mio.calls

\* Caller t holds barLock and has run them.
Held(t) == callers[t].pc = "body" /\ callers[t].seen < mio.calls

\* The calls that were made and have not yet run their statements.
Waiting == { t \in Callers : callers[t].pc = "lock" \/ InBody(t) }

LocksUntouched ==
    UNCHANGED << contentLength, callerVars, wg, closed, cleanup, workerVars,
                 session, calls, uploadCalls, failedAttempts, waitCalls,
                 completeInput, arrivals, crashed, replies, metaVars,
                 readerVars, runVars, reporterVars >>

\* Goroutine t calls AdvanceTask, CreateFileTask, DescribeTask or FinishTask.
Call(t) ==
    /\ callers[t].pc = "idle"
    /\ ~mio.panicked
    /\ mio.calls + Cardinality(Waiting) < MaxLockedCalls
    /\ callers' = [callers EXCEPT ![t].pc = "lock"]
    /\ UNCHANGED << barLock, wrLock >>
    /\ LocksUntouched

\* mpr.barLock.Lock() returns (progress.go:83, 118, 139, 153).
LockBar(t) ==
    /\ callers[t].pc = "lock"
    /\ ~mio.panicked
    /\ CanLock(barLock)
    /\ barLock' = t
    /\ callers' = [callers EXCEPT ![t] = [pc |-> "body", seen |-> mio.calls]]
    /\ UNCHANGED wrLock
    /\ LocksUntouched

\* The statements of a call, run by a caller that is past Lock.
LockedCall(statements) ==
    /\ \E t \in Callers : InBody(t)
    /\ statements

\* A bar renders: multiProgressbarWriter.Write takes wrLock (progress.go:192).
\* The bar CreateFileTask makes writes to io.Discard.
WriteLock(t) ==
    /\ Held(t)
    /\ ~mio.panicked
    /\ mio.last # "CreateFileTask"
    /\ CanLock(wrLock)
    /\ wrLock' = t
    /\ callers' = [callers EXCEPT ![t].pc = "write"]
    /\ UNCHANGED barLock
    /\ LocksUntouched

\* Write returns: the deferred mpw.wrLock.Unlock() (progress.go:193-199).
WriteUnlock(t) ==
    /\ callers[t].pc = "write"
    /\ wrLock' = 0
    /\ callers' = [callers EXCEPT ![t].pc = "body"]
    /\ UNCHANGED barLock
    /\ LocksUntouched

\* The call returns or panics: the deferred mpr.barLock.Unlock()
\* (progress.go:84, 119, 140, 154).
UnlockBar(t) ==
    /\ Held(t)
    /\ barLock' = 0
    /\ callers' = [callers EXCEPT ![t].pc = "idle"]
    /\ UNCHANGED wrLock
    /\ LocksUntouched

\* A reporter was made and is shared by MaxCallers goroutines.
InitLocks ==
    /\ pc = "idle"
    /\ Fresh(0)
    /\ MetaIdle
    /\ ReaderIdle
    /\ RunIdle
    /\ ReporterIdle
    /\ barLock = 0
    /\ wrLock = 0
    /\ callers = [t \in Callers |-> [pc |-> "idle", seen |-> 0]]

NextLocks ==
    \/ \E t \in Callers : Call(t)
    \/ \E t \in Callers : LockBar(t)
    \/ LockedCall(CreateFileTask)
    \/ LockedCall(AdvanceTask)
    \/ LockedCall(DescribeTask)
    \/ LockedCall(FinishTask)
    \/ \E t \in Callers : WriteLock(t)
    \/ \E t \in Callers : WriteUnlock(t)
    \/ \E t \in Callers : UnlockBar(t)

SpecLocks == InitLocks /\ [][NextLocks]_vars

(***************************************************************************)
(* Vocabulary of the properties.                                           *)
(***************************************************************************)
\* StoreFile has returned.
Returned == pc = "done"

\* StoreFile has returned from the multipart path with a session created.
ReturnedMultipart == Returned /\ session # "none"

\* The number of parts a content of len bytes is split into.
NumParts(len) ==
    (len + put_get_object_max_bytes - 1) \div put_get_object_max_bytes

\* Worker p has left the retry loop with a result.
Finished(p) == wpc[p] \in {"send", "sent", "done"}

\* Worker p's result has been received by the collector.
Delivered(p) == wpc[p] \in {"sent", "done"}

\* Part p succeeded, possibly after failed attempts.
Succeeded(p) == Finished(p) /\ werr[p] = NilErr

\* Part p failed all of its attempts.
Exhausted(p) == (Finished(p) \/ wpc[p] = "panic") /\ werr[p] # NilErr

\* The entries of the collector's list for part p.
EntriesOf(p) ==
    { i \in 1..Len(completedParts) : completedParts[i].PartNumber = p }

\* The parts whose failure was received, and the first of them to arrive.
FailedArrivals == { i \in 1..Len(arrivals) : werr[arrivals[i]] # NilErr }

FirstFailed ==
    arrivals[CHOOSE i \in FailedArrivals : \A j \in FailedArrivals : i <= j]

\* UploadPart calls started and not yet returned.
InFlight == Cardinality({ p \in Workers : wpc[p] = "inflight" })

(***************************************************************************)
(* Properties.                                                             *)
(***************************************************************************)
\* C1: a StoreFile call whose contentLength is at most the threshold
\* put_get_object_max_bytes (the threshold included) issues exactly one
\* PutObject call and no multipart call, and returns nil when the PUT
\* succeeds and the classified PUT error otherwise.
C1_SingleShot ==
    contentLength <= put_get_object_max_bytes =>
      /\ calls.create = 0 /\ calls.complete = 0 /\ calls.abort = 0
      /\ Workers = {} /\ session = "none"
      /\ calls.put = (IF Returned THEN 1 ELSE 0)
      /\ Returned =>
           \/ err = NilErr /\ ret = NilErr
           \/ err \in CallErrs /\ ret = handleError(err)

C1_Witness ==
    /\ Returned
    /\ contentLength = put_get_object_max_bytes
    /\ calls.put = 1
    /\ ret = PlainErr(ErrAccessDenied)

\* C2: whenever CompleteMultipartUpload is called, the Parts list it is given
\* is in strictly ascending part-number order, whatever the order in which the
\* results arrived.
C2_CompleteSorted ==
    calls.complete > 0 =>
      /\ Len(completeInput) = Len(arrivals)
      /\ \A i \in 1..(Len(completeInput) - 1) :
           completeInput[i].PartNumber < completeInput[i + 1].PartNumber

C2_Witness ==
    /\ calls.complete = 1
    /\ Len(arrivals) >= 2
    /\ arrivals[1] > arrivals[2]

\* C3 as stated: if every part ultimately succeeds, StoreFile returns no
\* error, CompleteMultipartUpload is called and AbortMultipartUpload is not.
C3_Original ==
    (ReturnedMultipart /\ \A p \in Workers : Succeeded(p)) =>
      /\ ret = NilErr
      /\ calls.complete = 1
      /\ calls.abort = 0

\* C3, amended: if every part ultimately succeeds, CompleteMultipartUpload is
\* called exactly once and AbortMultipartUpload never; StoreFile returns no
\* error when that call succeeds and its classified error when it fails.
C3_AllPartsSucceed ==
    (ReturnedMultipart /\ \A p \in Workers : Succeeded(p)) =>
      /\ calls.complete = 1
      /\ calls.abort = 0
      /\ \/ session = "completed" /\ ret = NilErr
         \/ session = "open" /\ err \in CallErrs /\ ret = handleError(err)

C3_Witness ==
    /\ ReturnedMultipart
    /\ \A p \in Workers : Succeeded(p)
    /\ \E p \in Workers : uploadCalls[p] > 1
    /\ ret = NilErr

\* C4: if a part failed all of its attempts, then when StoreFile returns it
\* returns the classified error of a failed part, AbortMultipartUpload was
\* called once, and CompleteMultipartUpload is never called.
C4_ExhaustedPartAborts ==
    (\E p \in Workers : Exhausted(p)) =>
      /\ calls.complete = 0
      /\ Returned =>
           /\ calls.abort = 1
           /\ ret # NilErr
           /\ \E p \in Workers : Exhausted(p) /\ ret = handleError(werr[p])

C4_Witness ==
    /\ Returned
    /\ \E p, q \in Workers : Exhausted(p) /\ Succeeded(q)
    /\ calls.abort = 1

\* C5: a part is attempted at most 5 times; a part that succeeds on attempt k
\* after k-1 failures has made exactly k UploadPart calls and has exactly one
\* entry in the collector's list once its result is received; a part that
\* always fails has made exactly 5 calls and has no entry.
C5_AttemptBudget ==
    \A p \in Workers :
      /\ uploadCalls[p] <= 5
      /\ Succeeded(p) =>
           /\ uploadCalls[p] = failedAttempts[p] + 1
           /\ wout[p] = UploadOutput(p, uploadCalls[p])
           /\ Cardinality(EntriesOf(p)) = (IF Delivered(p) THEN 1 ELSE 0)
      /\ Exhausted(p) =>
           /\ uploadCalls[p] = 5
           /\ failedAttempts[p] = 5
           /\ EntriesOf(p) = {}
      /\ ~Finished(p) => EntriesOf(p) = {}

C5_Witness ==
    /\ Returned
    /\ \E p, q \in Workers :
         /\ Succeeded(p) /\ uploadCalls[p] = 5
         /\ Exhausted(q)

\* C6: at every moment at most 4 UploadPart calls are in flight.
C6_BoundedInFlight == InFlight <= 4

\* C7: when a multipart StoreFile returns, every one of the N workers has
\* delivered its result and terminated, and the collector has received
\* exactly N results.
C7_Drained ==
    ReturnedMultipart =>
      /\ Len(wpc) = NumParts(contentLength)
      /\ \A p \in Workers : wpc[p] = "done"
      /\ Len(arrivals) = NumParts(contentLength)
      /\ \A p \in Workers : Cardinality({ i \in 1..Len(arrivals) : arrivals[i] = p }) = 1
      /\ wg = 0 /\ cleanup = "exited"

C7_Witness ==
    /\ ReturnedMultipart
    /\ Cardinality({ p \in Workers : Exhausted(p) }) >= 2

\* C8: the parts are consecutive byte ranges from 0, numbered 1..N in range
\* order; every part but the last has the fixed part size; once the split
\* loop has ended the ranges cover exactly [0, contentLength) and the last
\* part has between 1 and the fixed part size bytes; the ContentLength sent
\* with a part is the length of its range.
C8_Partition ==
    /\ \A p \in Workers :
         /\ wargs[p].partNum = p
         /\ wargs[p].offset = (IF p = 1 THEN 0
                               ELSE wargs[p - 1].offset + wargs[p - 1].size)
         /\ wargs[p].size >= 1
         /\ wargs[p].size <= put_get_object_max_bytes
         /\ wargs[p].offset + wargs[p].size <= contentLength
         /\ p < Len(wargs) => wargs[p].size = put_get_object_max_bytes
         /\ wargs[p].length = wargs[p].size
    /\ (session # "none" /\ pc # "split") =>
         /\ Len(wargs) >= 2
         /\ wargs[Len(wargs)].offset + wargs[Len(wargs)].size = contentLength

C8_Witness ==
    /\ pc = "collect"
    /\ contentLength = put_get_object_max_bytes + 1
    /\ Len(wargs) = 2
    /\ wargs[2].size = 1

\* C9: when parts fail, err holds the error of the failure received first,
\* later failures never replace it, and StoreFile returns its classification.
C9_FirstErrorWins ==
    FailedArrivals # {} =>
      /\ err = werr[FirstFailed]
      /\ Returned => ret = handleError(werr[FirstFailed])

C9_Witness ==
    /\ Returned
    /\ Cardinality(FailedArrivals) >= 2
    /\ \E i \in FailedArrivals :
         handleError(werr[arrivals[i]]) # handleError(werr[FirstFailed])

\* C10: whenever a multipart StoreFile returns after its session was created,
\* the session is completed or aborted, and StoreFile returns nil only when it
\* is completed.
C10_SessionClosed ==
    ReturnedMultipart =>
      /\ session \in {"completed", "aborted"}
      /\ ret = NilErr => session = "completed"

\* C11: if the AbortMultipartUpload call fails, StoreFile returns the
\* classified error of the part failure received first; the abort call's
\* error does not take its place, and the abort is attempted exactly once.
C11_AbortErrorSwallowed ==
    /\ calls.abort <= 1
    /\ (Returned /\ replies.abort \notin {Pending, NilErr}) =>
         /\ calls.abort = 1
         /\ FailedArrivals # {}
         /\ err = werr[FirstFailed]
         /\ ret = handleError(werr[FirstFailed])

C11_Witness ==
    /\ Returned
    /\ replies.abort = AwsErr("InternalError", "try again")
    /\ ret = PlainErr(ErrOperationTimeout)

\* C12: if all parts succeeded and CompleteMultipartUpload fails, StoreFile
\* returns that call's classified error; the call is made exactly once and
\* every part has made no UploadPart call beyond its successful one.
C12_CompleteErrorReturned ==
    /\ calls.complete <= 1
    /\ (Returned /\ replies.complete \notin {Pending, NilErr}) =>
         /\ ret = handleError(replies.complete)
         /\ calls.complete = 1
         /\ calls.abort = 0
         /\ \A p \in Workers :
              /\ wpc[p] = "done"
              /\ werr[p] = NilErr
              /\ uploadCalls[p] = failedAttempts[p] + 1

C12_Witness ==
    /\ Returned
    /\ replies.complete = PlainErr("connection reset")
    /\ ret = PlainErr("unknown B2 error (connection reset).")
    /\ \E p \in Workers : failedAttempts[p] > 0

\* C13: if CreateMultipartUpload returns an error, StoreFile returns its
\* classified error at once: no worker is started and no UploadPart,
\* CompleteMultipartUpload or AbortMultipartUpload call is issued.
C13_CreateErrorReturned ==
    replies.create \notin {Pending, NilErr} =>
      /\ Returned
      /\ ret = handleError(replies.create)
      /\ calls.create = 1
      /\ Workers = {} /\ uploadCalls = <<>> /\ cleanup = "none"
      /\ calls.complete = 0 /\ calls.abort = 0
      /\ session = "none"

C13_Witness ==
    /\ Returned
    /\ replies.create = AwsErr("AccessDenied", "")
    /\ ret = PlainErr(ErrAccessDenied)

\* C14: if CreateMultipartUpload returns no error and a nil output or an
\* output without an upload id, StoreFile returns a non-nil error that carries
\* the text of the missing-upload-id validation error, and issues no
\* UploadPart, CompleteMultipartUpload or AbortMultipartUpload call.
C14_NoUploadId ==
    (replies.create = NilErr
       /\ replies.createOutput \in {"nil", "no upload id"}) =>
      /\ Returned
      /\ ret # NilErr
      /\ ret = PlainErr("unknown B2 error (multipart upload failed: "
                        \o "no upload id found in server response).")
      /\ Workers = {} /\ uploadCalls = <<>> /\ cleanup = "none"
      /\ calls.complete = 0 /\ calls.abort = 0
      /\ session = "none"

C14_Witness ==
    /\ Returned
    /\ replies.create = NilErr
    /\ replies.createOutput = "nil"
    /\ calls.create = 1

\* The operation op has returned.
Done(name) == op = name /\ mpc = "done"

\* The only remote call of a returned GetFileInfo or ListFiles.
TheCall == trace[1]

\* The sum of the sizes and the latest modification time of the first n
\* objects of a listing, as integers.
RECURSIVE SumOfSizes(_, _)
SumOfSizes(contents, n) ==
    IF n = 0 THEN 0 ELSE SumOfSizes(contents, n - 1) + contents[n].Size

LatestModified(contents) ==
    CHOOSE t \in { contents[i].LastModified : i \in 1..Len(contents) } :
      \A i \in 1..Len(contents) : contents[i].LastModified <= t

\* C15: handleError returns a non-nil error for every error, and the error it
\* returns is the one the table gives for its argument: "file not found" for
\* the service codes NotFound, NoSuchBucket and NoSuchKey, "access denied"
\* for AccessDenied, "invalid backend configuration" for MissingRegion and
\* EmptyStaticCreds, "operation timeout" for RequestTimeout, and
\* "unknown B2 error (<text of the argument>)." for everything else.
C15_Classifier ==
    Done("handleError") =>
      LET code == IF arg.kind = "aws" THEN <<arg.code>> ELSE <<>>
          text == mret.err.msg
      IN  /\ mret.err \notin {NilErr, Pending}
          /\ mret.err.kind = "plain"
          /\ code \in {<<"NotFound">>, <<"NoSuchBucket">>, <<"NoSuchKey">>}
               => text = "file not found"
          /\ code = <<"AccessDenied">> => text = "access denied"
          /\ code \in {<<"MissingRegion">>, <<"EmptyStaticCreds">>}
               => text = "invalid backend configuration"
          /\ code = <<"RequestTimeout">> => text = "operation timeout"
          /\ code \notin {<<"NotFound">>, <<"NoSuchBucket">>, <<"NoSuchKey">>,
                          <<"AccessDenied">>, <<"MissingRegion">>,
                          <<"EmptyStaticCreds">>, <<"RequestTimeout">>}
               => text = "unknown B2 error (" \o ErrorText(arg) \o ")."

C15_Witness ==
    /\ Done("handleError")
    /\ arg = AwsErr("NoSuchBucket", "try again")
    /\ mret.err = PlainErr("file not found")

\* C16: an error that GetFileInfo, ListFiles, RemoveFile or StoreFile returns
\* because a remote call failed is handleError of that call's error: it is
\* neither that error itself nor handleError applied twice to it.
C16_ClassifiedOnce ==
    /\ \A i \in 1..Len(trace) :
         trace[i].err # NilErr =>
           /\ i = Len(trace)
           /\ mpc = "done"
           /\ mret.err = handleError(trace[i].err)
           /\ mret.err # trace[i].err
           /\ mret.err # handleError(handleError(trace[i].err))
    /\ (Returned /\ err # NilErr) =>
         /\ err \in {replies.put, replies.create, replies.complete}
                      \cup { werr[p] : p \in Workers }
         /\ ret = handleError(err)
         /\ ret # err
         /\ ret # handleError(handleError(err))

C16_Witness ==
    /\ Done("GetFileInfo")
    /\ IsPrefixPath(uri)
    /\ TheCall.call = "ListObjectsV2"
    /\ TheCall.err = AwsErr("NotFound", "")
    /\ mret.err = PlainErr("file not found")

\* C17: GetFileInfo on a prefix whose listing call answers returns no error
\* and a FileInfo with isfile FALSE, the sum of the listed sizes as size and
\* the latest listed modification time as modified; for an empty listing the
\* size is 0 and modified is the Unix epoch.
C17_PrefixAggregate ==
    (Done("GetFileInfo") /\ IsPrefixPath(uri) /\ TheCall.err = NilErr) =>
      LET contents == TheCall.out
      IN  /\ mret.err = NilErr
          /\ ~mret.isnil
          /\ mret.value[1].isfile = FALSE
          /\ mret.value[1].size =
               [wrapped |-> FALSE, low |-> SumOfSizes(contents, Len(contents))]
          /\ mret.value[1].modified =
               IF contents = <<>> THEN 0 ELSE LatestModified(contents)

\* C18: GetFileInfo on an object key whose HeadObject call answers returns
\* the error "invalid file info", as it is, and a nil result when the content
\* length is negative; otherwise no error and a FileInfo with that size, the
\* reported modification time and isfile TRUE.
C18_ObjectKey ==
    (Done("GetFileInfo") /\ TheCall.call = "HeadObject"
       /\ TheCall.err = NilErr) =>
      LET head == TheCall.out[1]
      IN  IF head.ContentLength < 0
          THEN /\ mret.isnil
               /\ mret.err = PlainErr("invalid file info")
          ELSE /\ mret.err = NilErr
               /\ ~mret.isnil
               /\ mret.value[1].size =
                    [wrapped |-> FALSE, low |-> head.ContentLength]
               /\ mret.value[1].modified = head.LastModified
               /\ mret.value[1].isfile = TRUE

C18_Witness ==
    /\ Done("GetFileInfo")
    /\ TheCall.call = "HeadObject"
    /\ TheCall.err = NilErr
    /\ TheCall.out[1].ContentLength = -1
    /\ mret.err = PlainErr("invalid file info")

\* C19: GetFileInfo makes one remote call, a listing call exactly when the
\* uri's path ends with "/" and a HeadObject call exactly when it does not,
\* and a FileInfo it returns has isfile FALSE in the first case and TRUE in
\* the second; the path "/" is no exception.
C19_PrefixIffTrailingSlash ==
    Done("GetFileInfo") =>
      /\ Len(trace) = 1
      /\ HasSuffix(uri.path, "/") <=> TheCall.call = "ListObjectsV2"
      /\ ~HasSuffix(uri.path, "/") <=> TheCall.call = "HeadObject"
      /\ ~mret.isnil =>
           (mret.value[1].isfile <=> ~HasSuffix(uri.path, "/"))

\* C20: the first remote call of RemoveFile is HeadObject; DeleteObject is
\* called at most once, only as the second call after a HeadObject that
\* returned no error, for the same bucket and key and with the VersionId of
\* HeadObject's output; after a failed HeadObject RemoveFile returns without
\* another call.
C20_HeadBeforeDelete ==
    op = "RemoveFile" =>
      /\ Len(trace) <= 2
      /\ Len(trace) >= 1 => trace[1].call = "HeadObject"
      /\ \A i \in 1..Len(trace) :
           trace[i].call = "DeleteObject" =>
             /\ i = 2
             /\ trace[1].err = NilErr
             /\ trace[2].version = trace[1].out[1].VersionId
             /\ trace[2].bucket = trace[1].bucket
             /\ trace[2].key = trace[1].key
      /\ (Len(trace) >= 1 /\ trace[1].err # NilErr) =>
           Len(trace) = 1 /\ mpc = "done"

C20_Witness ==
    /\ Done("RemoveFile")
    /\ Len(trace) = 2
    /\ trace[2].call = "DeleteObject"
    /\ trace[2].version = "v2"
    /\ trace[1].out[1].VersionId = "v2"

\* C21: RemoveFile returns nil exactly when HeadObject and DeleteObject both
\* returned no error; the error of the call that failed is returned
\* classified, and a DeleteObject rejected with AccessDenied after a
\* successful HeadObject gives "access denied".
C21_RemoveFileResult ==
    Done("RemoveFile") =>
      LET headOk == trace[1].err = NilErr
          deleteOk == Len(trace) = 2 /\ trace[2].err = NilErr
      IN  /\ mret.err = NilErr <=> (headOk /\ deleteOk)
          /\ ~headOk => mret.err = handleError(trace[1].err)
          /\ (headOk /\ ~deleteOk) =>
               /\ Len(trace) = 2
               /\ mret.err = handleError(trace[2].err)
          /\ (headOk /\ Len(trace) = 2
                /\ trace[2].err.kind = "aws"
                /\ trace[2].err.code = "AccessDenied") =>
               mret.err = PlainErr("access denied")

C21_Witness ==
    /\ Done("RemoveFile")
    /\ Len(trace) = 2
    /\ trace[1].err = NilErr
    /\ trace[2].err = AwsErr("AccessDenied", "")
    /\ mret.err = PlainErr("access denied")

\* C22: ListFiles whose listing call answers returns no error and one
\* FileInfo per reported object, in the reported order, with the object's
\* key, size and modification time and isfile TRUE (none for an empty
\* listing, and not the nil slice); when the listing call fails it returns
\* the nil slice and the classified error.
C22_ListFilesResult ==
    Done("ListFiles") =>
      LET contents == TheCall.out
      IN  IF TheCall.err = NilErr
          THEN /\ mret.err = NilErr
               /\ ~mret.isnil
               /\ Len(mret.value) = Len(contents)
               /\ \A i \in 1..Len(contents) :
                    /\ mret.value[i].name = contents[i].Key
                    /\ mret.value[i].size =
                         [wrapped |-> FALSE, low |-> contents[i].Size]
                    /\ mret.value[i].modified = contents[i].LastModified
                    /\ mret.value[i].isfile
          ELSE /\ mret.isnil
               /\ mret.value = <<>>
               /\ mret.err = handleError(TheCall.err)

\* C23: ListFiles whose listing call answers returns one FileInfo for every
\* object the bucket holds under the prefix, also when the service truncates
\* its answer, and the aggregate of GetFileInfo on the prefix is the one of
\* all those objects.
C23_EveryObjectListed ==
    /\ (Done("ListFiles") /\ TheCall.err = NilErr) =>
         /\ Len(mret.value) = Len(stored)
         /\ \A i \in 1..Len(stored) : mret.value[i].name = stored[i].Key
    /\ (Done("GetFileInfo") /\ IsPrefixPath(uri) /\ TheCall.err = NilErr) =>
         LET all == ListFilesResult(stored)
         IN  /\ mret.value[1].size = KeySize(all, Len(all))
             /\ mret.value[1].modified = ModifiedDate(all, Len(all))

\* The sum of a sequence of numbers.
RECURSIVE SumOf(_)
SumOf(seq) == IF seq = <<>> THEN 0 ELSE Head(seq) + SumOf(Tail(seq))

\* C24: whatever Read and Seek calls are made, each call on the
\* progress-tracking reader returns the byte count, data, offset and error
\* that the same call returns on a plain section reader given the same calls,
\* and leaves the same offset, with progress enabled and disabled; the reads
\* that return the whole range, before and after a rewind, return the same
\* data.
C24_SameAsSectionReader ==
    /\ psr.sr = ref
    /\ rio.last = rio.refLast
    /\ \A i \in 1..Len(rio.passes) :
         /\ rio.passes[i] = rio.passes[1]
         /\ rio.passes[i] = Bytes(0, ref.size)

C24_Witness ==
    /\ psr.bar # <<>>
    /\ ref.size = 2
    /\ Len(rio.passes) = 2
    /\ rio.passes[2] = <<1, 2>>
    /\ rio.calls = 3

C26_DelayBetweenAttempts ==
    \A p \in Workers :
      (Finished(p) \/ wpc[p] = "panic") => waitCalls[p] = uploadCalls[p] - 1

\* C27: the result of a part that failed all of its attempts carries the
\* error its last UploadPart call returned, and when that result is the first
\* failure received StoreFile returns handleError of that error.
C27_LastErrorCarried ==
    /\ \A p \in Workers :
         Exhausted(p) =>
           /\ uploadCalls[p] = 5
           /\ wout[p] \in {NilOutput, UploadOutput(p, 5)}
           /\ werr[p] = replies.upload[p]
    /\ (Returned /\ FailedArrivals # {}) =>
         /\ err = replies.upload[FirstFailed]
         /\ ret = handleError(replies.upload[FirstFailed])

C27_Witness ==
    /\ Returned
    /\ Len(arrivals) = 2
    /\ FailedArrivals = {1, 2}
    /\ replies.upload[arrivals[1]] = AwsErr("RequestTimeout", "idle")
    /\ replies.upload[arrivals[2]] = AwsErr("AccessDenied", "")
    /\ ret = PlainErr(ErrOperationTimeout)

\* The positions of the RemoveFile calls among the calls run made.
Removals == { i \in 1..Len(run.calls) : run.calls[i].name = "RemoveFile" }

\* C28: in a backup run every RemoveFile call comes after a StoreFile call
\* of that run that returned nil, and a run in which archiving, encryption
\* or the upload failed makes no RemoveFile call.
C28_RotationAfterStore ==
    /\ \A i \in Removals :
         \E j \in 1..(i - 1) : run.calls[j] = BackendCall("StoreFile", NilErr)
    /\ run.failed \in {"archive", "encrypt", "store"} => Removals = {}

\* A run that stored the archive and removed an old file has returned.
C28_Witness ==
    /\ run.pc = "done"
    /\ run.ret = NilErr
    /\ Removals # {}

\* The last call on the reporter was one of the three that take an index.
IndexedCall == mio.last \in {"AdvanceTask", "DescribeTask", "FinishTask"}

\* C29: AdvanceTask, DescribeTask and FinishTask with an index that is not a
\* live task return "task index <n> outside of available range" and leave
\* the reporter as it was; with a live task they return nil; and a task
\* whose advanced total arrives at its size is finished and removed.
C29_ReporterCalls ==
    /\ (IndexedCall /\ ~Present(mio.before, mio.index)) =>
         /\ mio.err = OutsideRange(mio.index)
         /\ mpr = mio.before
    /\ (IndexedCall /\ Present(mio.before, mio.index)) => mio.err = NilErr
    /\ ( /\ mio.last = "AdvanceTask"
         /\ Present(mio.before, mio.index)
         /\ LET bar == mio.before.bars[mio.index]
            IN  bar.current + mio.increment = bar.max ) =>
         ~Present(mpr, mio.index)

\* C30: once the split loop has ended the number of parts is
\* ceil(contentLength / put_get_object_max_bytes), which is at least 2; part
\* p has number p and starts at (p - 1) * put_get_object_max_bytes, whatever
\* multipart_upload_part_size is; and a content of 5 times the threshold has
\* exactly the parts 1..5, each of put_get_object_max_bytes bytes.
C30_PartCount ==
    /\ \A p \in Workers :
         /\ wargs[p].partNum = p
         /\ wargs[p].offset = (p - 1) * put_get_object_max_bytes
    /\ (session # "none" /\ pc # "split") =>
         /\ Len(wargs) = NumParts(contentLength)
         /\ Len(wargs) >= 2
         /\ contentLength = 5 * put_get_object_max_bytes =>
              /\ { wargs[p].partNum : p \in Workers } = 1..5
              /\ \A p \in Workers : wargs[p].size = put_get_object_max_bytes

\* A content of 5 times the threshold has been stored: 5 parts, each
\* uploaded once.
C30_Witness ==
    /\ Returned
    /\ ret = NilErr
    /\ contentLength = 5 * put_get_object_max_bytes
    /\ Len(wargs) = 5
    /\ \A p \in Workers : uploadCalls[p] = 1

\* C31: under fair scheduling, with every remote call and every delay
\* returning, StoreFile eventually returns.
C31_Terminates == <>Returned

\* The results worker p has sent on the channel so far.
SentBy(p) == { i \in 1..Len(arrivals) : arrivals[i] = p }

\* C32: whatever UploadPart returns, a worker never crashes, sends no result
\* while it is still uploading, and has sent exactly one once it is past its
\* send; it ends only after that send.
C32_OneResultPerWorker ==
    \A p \in Workers :
      /\ wpc[p] # "panic"
      /\ Cardinality(SentBy(p)) = (IF Delivered(p) THEN 1 ELSE 0)
      /\ wpc[p] = "done" => Cardinality(SentBy(p)) = 1

\* C33: every attempt of a part upload, the first and each retry, starts
\* with the part's reader at the beginning of the part's byte range.
C33_AttemptsStartAtOffsetZero ==
    \A k \in 1..Len(rio.starts) : rio.starts[k] = 0

\* C34: the part list given to CompleteMultipartUpload has one entry for
\* each part number 1..N and no other; the entry of part n carries the ETag
\* the service returned for the call of part n that succeeded, which is the
\* part's last call; and no part of the list has a result with an error.
C34_CompleteInput ==
    calls.complete > 0 =>
      /\ Len(completeInput) = NumParts(contentLength)
      /\ { completeInput[i].PartNumber : i \in 1..Len(completeInput) }
           = 1..NumParts(contentLength)
      /\ \A i \in 1..Len(completeInput) :
           LET n == completeInput[i].PartNumber
           IN  /\ completeInput[i].ETag = UploadOutput(n, uploadCalls[n])
               /\ replies.upload[n] = NilErr
               /\ failedAttempts[n] = uploadCalls[n] - 1

\* CompleteMultipartUpload was called with a part that succeeded on a retry
\* and with parts that arrived out of order.
C34_Witness ==
    /\ calls.complete = 1
    /\ \E i \in 1..Len(completeInput) :
         uploadCalls[completeInput[i].PartNumber] >= 2
    /\ arrivals[1] > arrivals[2]

\* C35: the handle CreateFileTask returns is not the handle of a task that
\* was live when it was called, and the bar of every task that was live is
\* still that task's bar afterwards.
C35_FreshHandle ==
    mio.last = "CreateFileTask" =>
      /\ ~Present(mio.before, mio.index)
      /\ \A i \in DOMAIN mio.before.bars : mpr.bars[i] = mio.before.bars[i]

\* C36: FinishTask on a live task, advanced or not, does not panic and
\* returns nil; afterwards the task is not live and every task of the
\* active list is live.
C36_FinishLiveTask ==
    (mio.last = "FinishTask" /\ Present(mio.before, mio.index)) =>
      /\ ~mio.panicked
      /\ mio.err = NilErr
      /\ ~Present(mpr, mio.index)
      /\ \A i \in 1..Len(mpr.active) : Present(mpr, mpr.active[i])

\* C37: when run has returned, no temporary file it created is on disk.
C37_TemporaryFilesRemoved == run.pc = "done" => run.files = {}

\* C38: no FileInfo that ListFiles returns, and no FileInfo that GetFileInfo
\* returns, carries a size that wrapped modulo 2^64: a negative size that
\* the service reported never appears as a size.
C38_NoWrappedSize ==
    /\ Done("ListFiles") =>
         \A i \in 1..Len(mret.value) : ~mret.value[i].size.wrapped
    /\ (Done("GetFileInfo") /\ ~mret.isnil) => ~mret.value[1].size.wrapped

\* C39: the active list has no duplicates and holds only live tasks; the
\* task at position i of the list, counted from 0, writes to line i + 1;
\* the list is never longer than totLines; and no call decreases totLines.
C39_ActiveList ==
    /\ \A i, j \in 1..Len(mpr.active) :
         i # j => mpr.active[i] # mpr.active[j]
    /\ \A i \in 1..Len(mpr.active) :
         /\ Present(mpr, mpr.active[i])
         /\ mpr.writer[mpr.active[i]] = i
    /\ Len(mpr.active) <= mpr.totLines
    /\ mpr.totLines >= mio.before.totLines

\* The callers that are between Lock and the deferred Unlock of barLock.
InCall == { t \in Callers : callers[t].pc \in {"body", "write"} }

\* C40: concurrent calls of CreateFileTask, AdvanceTask, DescribeTask and
\* FinishTask are serialized: at most one caller is between Lock and Unlock
\* of barLock, so at most one reads or changes the task map and the active
\* list at a time; wrLock is only ever held by the holder of barLock, and a
\* caller waiting for barLock holds no lock; and while the process is alive
\* and some call has not returned, some caller can take a step.
C40_Serialized ==
    /\ Cardinality(InCall) <= 1
    /\ \A t \in InCall : barLock = t
    /\ wrLock # 0 => (barLock = wrLock /\ callers[wrLock].pc = "write")
    /\ \A t \in Callers :
         callers[t].pc = "lock" => (barLock # t /\ wrLock # t)
    /\ (~mio.panicked /\ \E t \in Callers : callers[t].pc # "idle")
         => ENABLED NextLocks

\* One caller writes a bar while holding both locks, a second caller waits
\* for barLock, and a task is on the active list.
C40_Witness ==
    /\ barLock = 1
    /\ wrLock = 1
    /\ callers[2].pc = "lock"
    /\ Len(mpr.active) >= 1

====
